---- MODULE Spec2Model ----
(***************************************************************************)
(* A model of chainsaw's incremental dependency-graph builder: the graph   *)
(* store (graph.rs), the two-tier parse cache (cache.rs), the BFS builder  *)
(* (walker.rs) and the load-or-build flow of the trace command (main.rs).  *)
(*                                                                         *)
(* Ids are 0-based as in the source (ModuleId(0) is the first module);     *)
(* TLA+ sequences are 1-based, so modules[id + 1] is the module with that  *)
(* id.                                                                        *)
(***************************************************************************)
EXTENDS Integers, Sequences, FiniteSets, TLC

VARIABLES
    graph,      \* graph.rs: the ModuleGraph under construction
    call,       \* the last public operation called, its arguments and result
    fs,         \* the file system: path -> [exists, mtime, size, content]
    cache,      \* cache.rs: the ParseCache in memory [entries, cached_graph]
    disk,       \* the cache file <root>/.chainsaw.cache
    recorded,   \* history: path -> what the file's metadata was when a
                \* result was last inserted for it (None: never)
    tl,         \* cache.rs: a try_load_graph call in progress
    build,      \* walker.rs: the locals of a build_graph call in progress
    run         \* main.rs: the trace command's position and locals

vars == <<graph, call, fs, cache, disk, recorded, tl, build, run>>

\* Option<T>
None == [some |-> FALSE]
Some(v) == [some |-> TRUE, value |-> v]

(***************************************************************************)
(* Generic helpers                                                         *)
(***************************************************************************)
Range(s) == {s[i] : i \in 1..Len(s)}

\* Iterator::find over a Vec: the least index among the matching ones S, or 0
FindFirst(S) ==
    IF S = {} THEN 0 ELSE CHOOSE i \in S : \A j \in S : i <= j

(***************************************************************************)
(* graph.rs                                                                *)
(***************************************************************************)
EdgeKind == {"Static", "Dynamic", "TypeOnly"}

\* ModuleGraph::new
ModuleGraph_new ==
    [modules |-> <<>>, edges |-> <<>>, forward_adj |-> <<>>,
     path_to_id |-> <<>>, package_map |-> <<>>]

\* ModuleGraph::module / ModuleGraph::edge / ModuleGraph::outgoing_edges
module(g, id) == g.modules[id + 1]
edge(g, id) == g.edges[id + 1]
outgoing_edges(g, id) == g.forward_adj[id + 1]
module_count(g) == Len(g.modules)

\* Variant: no look-up in the path index, every call pushes a module
add_module_always_push(g, path, size_bytes, package) ==
    LET id == Len(g.modules) IN
    [graph |-> [g EXCEPT
                   !.modules = Append(@, [id |-> id, path |-> path,
                                          size_bytes |-> size_bytes,
                                          package |-> package]),
                   !.forward_adj = Append(@, <<>>),
                   !.path_to_id = (path :> id) @@ @],
     id |-> id]

\* Variant: a known path gets the size and package of the latest call
add_module_refresh(g, path, size_bytes, package) ==
    IF path \in DOMAIN g.path_to_id
    THEN [graph |-> [g EXCEPT !.modules[g.path_to_id[path] + 1] =
                        [@ EXCEPT !.size_bytes = size_bytes, !.package = package]],
          id |-> g.path_to_id[path]]
    ELSE LET id == Len(g.modules) IN
         [graph |-> [g EXCEPT
                        !.modules = Append(@, [id |-> id, path |-> path,
                                               size_bytes |-> size_bytes,
                                               package |-> package]),
                        !.forward_adj = Append(@, <<>>),
                        !.path_to_id = (path :> id) @@ @],
          id |-> id]

\* ModuleGraph::add_module: the new graph and the returned id
add_module(g, path, size_bytes, package) ==
    IF path \in DOMAIN g.path_to_id
    THEN [graph |-> g, id |-> g.path_to_id[path]]
    ELSE LET id == Len(g.modules) IN
         [graph |-> [g EXCEPT
                        !.modules = Append(@, [id |-> id, path |-> path,
                                               size_bytes |-> size_bytes,
                                               package |-> package]),
                        !.forward_adj = Append(@, <<>>),
                        !.path_to_id = (path :> id) @@ @],
          id |-> id]

\* Variant: the duplicate scan compares the target only, not the kind
add_edge_ignoring_kind(g, from, to, kind, specifier) ==
    LET adj == g.forward_adj[from + 1]
        hit == FindFirst({i \in 1..Len(adj) : g.edges[adj[i] + 1].to = to})
    IN  IF hit # 0
        THEN [graph |-> g, id |-> adj[hit]]
        ELSE LET id == Len(g.edges) IN
             [graph |-> [g EXCEPT
                            !.edges = Append(@, [id |-> id, from |-> from, to |-> to,
                                                 kind |-> kind, specifier |-> specifier]),
                            !.forward_adj[from + 1] = Append(@, id)],
              id |-> id]

\* Variant: a duplicate call refreshes the stored specifier
add_edge_last_specifier(g, from, to, kind, specifier) ==
    LET adj == g.forward_adj[from + 1]
        hit == FindFirst({i \in 1..Len(adj) :
                             /\ g.edges[adj[i] + 1].to = to
                             /\ g.edges[adj[i] + 1].kind = kind})
    IN  IF hit # 0
        THEN [graph |-> [g EXCEPT !.edges[adj[hit] + 1].specifier = specifier],
              id |-> adj[hit]]
        ELSE LET id == Len(g.edges) IN
             [graph |-> [g EXCEPT
                            !.edges = Append(@, [id |-> id, from |-> from, to |-> to,
                                                 kind |-> kind, specifier |-> specifier]),
                            !.forward_adj[from + 1] = Append(@, id)],
              id |-> id]

\* Variant: the new edge id is put at the head of the adjacency list
add_edge_at_head(g, from, to, kind, specifier) ==
    LET adj == g.forward_adj[from + 1]
        hit == FindFirst({i \in 1..Len(adj) :
                             /\ g.edges[adj[i] + 1].to = to
                             /\ g.edges[adj[i] + 1].kind = kind})
    IN  IF hit # 0
        THEN [graph |-> g, id |-> adj[hit]]
        ELSE LET id == Len(g.edges) IN
             [graph |-> [g EXCEPT
                            !.edges = Append(@, [id |-> id, from |-> from, to |-> to,
                                                 kind |-> kind, specifier |-> specifier]),
                            !.forward_adj[from + 1] = <<id>> \o @],
              id |-> id]

\* Variant: the edge is stored but not entered in the adjacency list
add_edge_unindexed(g, from, to, kind, specifier) ==
    LET id == Len(g.edges) IN
    [graph |-> [g EXCEPT
                   !.edges = Append(@, [id |-> id, from |-> from, to |-> to,
                                        kind |-> kind, specifier |-> specifier])],
     id |-> id]

\* ModuleGraph::add_edge: the new graph and the returned id
add_edge(g, from, to, kind, specifier) ==
    LET adj == g.forward_adj[from + 1]
        hit == FindFirst({i \in 1..Len(adj) :
                             /\ g.edges[adj[i] + 1].to = to
                             /\ g.edges[adj[i] + 1].kind = kind})
    IN  IF hit # 0
        THEN [graph |-> g, id |-> adj[hit]]
        ELSE LET id == Len(g.edges) IN
             [graph |-> [g EXCEPT
                            !.edges = Append(@, [id |-> id, from |-> from, to |-> to,
                                                 kind |-> kind, specifier |-> specifier]),
                            !.forward_adj[from + 1] = Append(@, id)],
              id |-> id]

(***************************************************************************)
(* The file system                                                         *)
(***************************************************************************)
Paths == {"a.ts", "b.ts", "c.ts", "n.json"}

\* A path with no file behind it
\* What a file holds: its import statements in source order, the number of
\* import()/require() calls with a non-literal argument, and whether it is
\* well-formed (ok = FALSE: the extractor fails with a ParseError)
EmptyContent == [ok |-> TRUE, imports |-> <<>>, dyn |-> 0]
NoFile == [exists |-> FALSE, mtime |-> 0, size |-> 0, content |-> EmptyContent]

\* fs::metadata(path).ok(): the file's metadata, None when it cannot be read
metadata(files, path) ==
    IF files[path].exists
    THEN Some([modified |-> files[path].mtime, len |-> files[path].size])
    ELSE None

\* cache.rs mtime_of: nanoseconds since the epoch, None for a modification
\* time before the epoch (duration_since fails)
mtime_of(meta) == IF meta.modified < 0 THEN None ELSE Some(meta.modified)

(***************************************************************************)
(* cache.rs: the per-file parse cache (tier 2)                             *)
(***************************************************************************)
CACHE_VERSION == 4

\* ParseCache::new
ParseCache_new == [entries |-> <<>>, cached_graph |-> None]

\* Variant: the validity check compares the mtime only
lookup_mtime_only(c, files, path) ==
    IF path \notin DOMAIN c.entries THEN None
    ELSE LET entry == c.entries[path]
             meta == metadata(files, path)
         IN  IF ~meta.some THEN None
             ELSE IF ~mtime_of(meta.value).some THEN None
             ELSE IF mtime_of(meta.value).value = entry.mtime_nanos
                  THEN Some(entry.result)
                  ELSE None

\* Variant: an entry is served whatever the file looks like now
lookup_any_entry(c, files, path) ==
    IF path \notin DOMAIN c.entries THEN None
    ELSE Some(c.entries[path].result)

\* ParseCache::lookup: the cached result, None for a miss
lookup(c, files, path) ==
    IF path \notin DOMAIN c.entries THEN None
    ELSE LET entry == c.entries[path]
             meta == metadata(files, path)
         IN  IF ~meta.some THEN None
             ELSE IF ~mtime_of(meta.value).some THEN None
             ELSE IF /\ mtime_of(meta.value).value = entry.mtime_nanos
                     /\ meta.value.len = entry.size
                  THEN Some(entry.result)
                  ELSE None

\* ParseCache::insert: the cache after the call
insert(c, files, path, result) ==
    LET meta == metadata(files, path) IN
    IF ~meta.some THEN c
    ELSE IF ~mtime_of(meta.value).some THEN c
    ELSE [c EXCEPT !.entries =
             (path :> [mtime_nanos |-> mtime_of(meta.value).value,
                       size |-> meta.value.len,
                       result |-> result])
             @@ @]

(***************************************************************************)
(* cache.rs: the whole-graph snapshot (tier 1), save and load              *)
(***************************************************************************)
\* ParseCache::save, file_mtimes: the modules whose metadata can be read,
\* each with its mtime and size at save time
save_file_mtimes(files, g) ==
    LET readable == {i \in 1..Len(g.modules) :
                        /\ metadata(files, g.modules[i].path).some
                        /\ mtime_of(metadata(files, g.modules[i].path).value).some}
    IN  [p \in {g.modules[i].path : i \in readable} |->
            [mtime_nanos |-> mtime_of(metadata(files, p).value).value,
             size |-> metadata(files, p).value.len]]

\* ParseCache::save: the envelope written to the cache file.  The envelope
\* is kept as a value: bitcode writes every field of CacheEnvelope and
\* reads the same fields back.
save(c, files, entry, g, unresolved_specifiers, unresolvable_dynamic) ==
    [version |-> CACHE_VERSION,
     parse_entries |-> c.entries,
     graph_cache |-> Some([entry |-> entry,
                           graph |-> g,
                           file_mtimes |-> save_file_mtimes(files, g),
                           unresolved_specifiers |-> unresolved_specifiers,
                           unresolvable_dynamic |-> unresolvable_dynamic])]

\* The orders in which a HashSet or HashMap may hand out its elements
Orderings(S) == {s \in [1..Cardinality(S) -> S] : Range(s) = S}

\* One of these orders
hash_order(S) == CHOOSE s \in Orderings(S) : TRUE

\* The content of a file that is no serialized envelope: empty, cut short,
\* or written by something else
Undecodable ==
    [valid |-> FALSE, version |-> 0, parse_entries |-> <<>>, graph_cache |-> None]

\* bitcode::serialize(&envelope): the fields in declaration order, a HashMap
\* as the sequence of its pairs in the order the map iterates, here
\* parse_order for parse_entries and mtime_order for file_mtimes
serialize(envelope, parse_order, mtime_order) ==
    [valid |-> TRUE,
     version |-> envelope.version,
     parse_entries |->
        [i \in 1..Len(parse_order) |->
            [path |-> parse_order[i], entry |-> envelope.parse_entries[parse_order[i]]]],
     graph_cache |->
        IF ~envelope.graph_cache.some THEN None
        ELSE Some([envelope.graph_cache.value EXCEPT !.file_mtimes =
                      [i \in 1..Len(mtime_order) |->
                          [path |-> mtime_order[i],
                           mtime |-> envelope.graph_cache.value.file_mtimes[mtime_order[i]]]]])]

\* bitcode::deserialize::<CacheEnvelope>(&data): Err as None; the pairs
\* are collected into HashMaps again
deserialize(data) ==
    IF ~data.valid THEN None
    ELSE Some(
        [version |-> data.version,
         parse_entries |->
            [path \in {data.parse_entries[i].path : i \in 1..Len(data.parse_entries)} |->
                data.parse_entries[CHOOSE i \in 1..Len(data.parse_entries) :
                                      data.parse_entries[i].path = path].entry],
         graph_cache |->
            IF ~data.graph_cache.some THEN None
            ELSE LET pairs == data.graph_cache.value.file_mtimes IN
                 Some([data.graph_cache.value EXCEPT !.file_mtimes =
                          [path \in {pairs[i].path : i \in 1..Len(pairs)} |->
                              pairs[CHOOSE i \in 1..Len(pairs) :
                                       pairs[i].path = path].mtime]])])

\* ParseCache::save up to fs::write: the bytes handed to it
save_data(c, files, entry, g, unresolved_specifiers, unresolvable_dynamic, parse_order, mtime_order) ==
    serialize(save(c, files, entry, g, unresolved_specifiers, unresolvable_dynamic),
              parse_order, mtime_order)

\* Variant: the version of the envelope is not looked at
load_any_version(d) ==
    IF ~d.some THEN ParseCache_new
    ELSE IF ~deserialize(d.value).some THEN ParseCache_new
    ELSE [entries |-> deserialize(d.value).value.parse_entries,
          cached_graph |-> deserialize(d.value).value.graph_cache]

\* Variant: the snapshot of the envelope is dropped
load_entries_only(d) ==
    IF ~d.some THEN ParseCache_new
    ELSE IF ~deserialize(d.value).some THEN ParseCache_new
    ELSE IF deserialize(d.value).value.version # CACHE_VERSION THEN ParseCache_new
    ELSE [entries |-> deserialize(d.value).value.parse_entries,
          cached_graph |-> None]

\* ParseCache::load from the cache file d (None: the file cannot be read)
load(d) ==
    IF ~d.some THEN ParseCache_new
    ELSE IF ~deserialize(d.value).some THEN ParseCache_new
    ELSE IF deserialize(d.value).value.version # CACHE_VERSION THEN ParseCache_new
    ELSE [entries |-> deserialize(d.value).value.parse_entries,
          cached_graph |-> deserialize(d.value).value.graph_cache]

\* Variant: a file that cannot be read counts as unchanged
file_unchanged_missing_ok(files, path, saved) ==
    LET meta == metadata(files, path) IN
    IF ~meta.some THEN TRUE
    ELSE IF ~mtime_of(meta.value).some THEN TRUE
    ELSE /\ mtime_of(meta.value).value = saved.mtime_nanos
         /\ meta.value.len = saved.size

\* try_load_graph, the closure's `ok`: the file at path still has the
\* saved mtime and size; false when its metadata cannot be read
file_unchanged(files, path, saved) ==
    LET meta == metadata(files, path) IN
    IF ~meta.some THEN FALSE
    ELSE IF ~mtime_of(meta.value).some THEN FALSE
    ELSE /\ mtime_of(meta.value).value = saved.mtime_nanos
         /\ meta.value.len = saved.size

\* try_load_graph after the parallel check: None when a file changed or a
\* previously unresolved specifier resolves now, else the snapshot
try_load_result(cached, valid, resolves) ==
    IF ~valid THEN None
    ELSE IF \E i \in 1..Len(cached.unresolved_specifiers) :
               cached.unresolved_specifiers[i] \in resolves
         THEN None
    ELSE Some([graph |-> cached.graph,
               unresolvable_dynamic |-> cached.unresolvable_dynamic])

\* try_load_graph is entered: no snapshot or another entry returns None at
\* once, otherwise the parallel check of file_mtimes starts with valid = true
TryLoadBegin(entry, resolves) ==
    /\ tl.phase = "idle"
    /\ IF ~cache.cached_graph.some
       THEN tl' = [phase |-> "done", entry |-> entry, resolves |-> resolves,
                   item |-> <<>>, ret |-> None]
       ELSE IF cache.cached_graph.value.entry # entry
       THEN tl' = [phase |-> "done", entry |-> entry, resolves |-> resolves,
                   item |-> <<>>, ret |-> None]
       ELSE tl' = [phase |-> "checking", entry |-> entry, resolves |-> resolves,
                   valid |-> TRUE,
                   item |-> [p \in DOMAIN cache.cached_graph.value.file_mtimes
                                |-> "start"]]
    /\ UNCHANGED <<graph, call, fs, cache, disk, recorded, build, run>>

\* A worker enters the closure for one path: valid.load(Relaxed).  A load
\* that misses a concurrent store reads what an earlier load would have
\* read, so the interleavings cover the relaxed outcomes.
TryLoadCheckFlag(path) ==
    /\ tl.phase = "checking"
    /\ path \in DOMAIN tl.item
    /\ tl.item[path] = "start"
    /\ tl' = [tl EXCEPT !.item[path] = IF tl.valid THEN "stat" ELSE "skipped"]
    /\ UNCHANGED <<graph, call, fs, cache, disk, recorded, build, run>>

\* The worker stats the file and stores false into valid on a mismatch
TryLoadStat(path) ==
    /\ tl.phase = "checking"
    /\ path \in DOMAIN tl.item
    /\ tl.item[path] = "stat"
    /\ tl' = [tl EXCEPT
                !.item[path] = "checked",
                !.valid = IF file_unchanged(fs, path,
                                 cache.cached_graph.value.file_mtimes[path])
                          THEN @ ELSE FALSE]
    /\ UNCHANGED <<graph, call, fs, cache, disk, recorded, build, run>>

\* for_each has joined its workers: the final load of valid and the scan of
\* the unresolved specifiers
TryLoadEnd ==
    /\ tl.phase = "checking"
    /\ \A p \in DOMAIN tl.item : tl.item[p] \in {"skipped", "checked"}
    /\ tl' = [phase |-> "done", entry |-> tl.entry, resolves |-> tl.resolves,
              item |-> tl.item,
              ret |-> try_load_result(cache.cached_graph.value, tl.valid,
                                      tl.resolves)]
    /\ UNCHANGED <<graph, call, fs, cache, disk, recorded, build, run>>

(***************************************************************************)
(* lang/mod.rs: the language support the builder is generic over           *)
(***************************************************************************)
\* LanguageSupport::extensions, walker.rs is_parseable
is_parseable(path) == path \in {"a.ts", "b.ts", "c.ts"}

\* LanguageSupport::parse: Ok(result) as Some, Err as None.  A missing file
\* and a malformed file both fail.
lang_parse(files, path) ==
    IF files[path].exists /\ files[path].content.ok
    THEN Some([imports |-> files[path].content.imports,
               unresolvable_dynamic |-> files[path].content.dyn])
    ELSE None

\* The file a specifier names; every file lies in the project directory, so
\* the importing directory does not matter.  ./b-link is a symlink to b.ts,
\* canonicalized by the resolver.
SpecifierTarget(specifier) ==
    CASE specifier = "./a" -> "a.ts"
      [] specifier = "./b" -> "b.ts"
      [] specifier = "./b-link" -> "b.ts"
      [] specifier = "./c" -> "c.ts"
      [] OTHER -> "n.json"

\* LanguageSupport::resolve: the first candidate that exists, else None
lang_resolve(files, specifier) ==
    IF files[SpecifierTarget(specifier)].exists
    THEN Some(SpecifierTarget(specifier))
    ELSE None

\* LanguageSupport::package_name(..).or_else(workspace_package_name(..))
package_name(path) == IF path = "n.json" THEN Some("n") ELSE None

\* fs::metadata(path).map(|m| m.len()).unwrap_or(0)
size_or_zero(files, path) ==
    IF metadata(files, path).some THEN metadata(files, path).value.len ELSE 0

(***************************************************************************)
(* walker.rs: build_graph                                                  *)
(***************************************************************************)
\* imports.map(|imp| (imp.clone(), lang.resolve(dir, &imp.specifier)))
resolve_imports(files, imports) ==
    [i \in 1..Len(imports) |->
        [imp |-> imports[i], path |-> lang_resolve(files, imports[i].specifier)]]

\* result.imports.into_iter().zip(resolved_paths): as long as the shorter
zip_imports(imports, resolved_paths) ==
    LET n == IF Len(imports) < Len(resolved_paths)
             THEN Len(imports) ELSE Len(resolved_paths)
    IN  [i \in 1..n |-> [imp |-> imports[i], path |-> resolved_paths[i]]]

\* resolved.iter().map(|(_, p)| p.clone())
paths_of(resolved) == [i \in 1..Len(resolved) |-> resolved[i].path]

\* What the walker stores per file: the parse result with the resolved path
\* of each import (cache.insert(path, &result, &resolved_paths))
cached_value(result, resolved_paths) ==
    [result |-> result, resolved_paths |-> resolved_paths]

\* Variant: a target that is already in the graph is queued again
phase1_import_requeue(st, files, parse_failures, source_id, ri) ==
    IF ~ri.path.some
    THEN [st EXCEPT !.unresolved = @ \cup {ri.imp.specifier}]
    ELSE LET resolved == ri.path.value
             known == resolved \in DOMAIN st.graph.path_to_id
             added == add_module(st.graph, resolved, size_or_zero(files, resolved),
                                 package_name(resolved))
             g2 == add_edge(added.graph, source_id, added.id,
                            ri.imp.kind, ri.imp.specifier).graph
         IN  [st EXCEPT
                !.graph = g2,
                !.new_files =
                   IF is_parseable(resolved) /\ added.id \notin parse_failures
                   THEN Append(@, added.id) ELSE @]

\* Variant helper: the imports of a newly met file are followed at once
RECURSIVE descend(_, _, _, _, _)
descend(g, files, source_id, resolved_imports, i) ==
    IF i > Len(resolved_imports) THEN g
    ELSE IF ~resolved_imports[i].path.some
    THEN descend(g, files, source_id, resolved_imports, i + 1)
    ELSE LET resolved == resolved_imports[i].path.value
             added == add_module(g, resolved, size_or_zero(files, resolved),
                                 package_name(resolved))
         IN  descend(add_edge(added.graph, source_id, added.id,
                              resolved_imports[i].imp.kind,
                              resolved_imports[i].imp.specifier).graph,
                     files, source_id, resolved_imports, i + 1)

\* Variant: depth-first, a newly met file is read and its imports get their
\* modules before the scan of the frontier goes on
phase1_import_depth_first(st, files, parse_failures, source_id, ri) ==
    IF ~ri.path.some
    THEN [st EXCEPT !.unresolved = @ \cup {ri.imp.specifier}]
    ELSE LET resolved == ri.path.value IN
         IF resolved \in DOMAIN st.graph.path_to_id
         THEN [st EXCEPT !.graph =
                  add_edge(@, source_id, st.graph.path_to_id[resolved],
                           ri.imp.kind, ri.imp.specifier).graph]
         ELSE LET added == add_module(st.graph, resolved,
                                      size_or_zero(files, resolved),
                                      package_name(resolved))
                  g2 == add_edge(added.graph, source_id, added.id,
                                 ri.imp.kind, ri.imp.specifier).graph
                  below == IF is_parseable(resolved) /\ lang_parse(files, resolved).some
                           THEN resolve_imports(files,
                                    lang_parse(files, resolved).value.imports)
                           ELSE <<>>
              IN  [st EXCEPT
                     !.graph = descend(g2, files, added.id, below, 1),
                     !.new_files =
                        IF is_parseable(resolved) /\ added.id \notin parse_failures
                        THEN Append(@, added.id) ELSE @]

\* Phase 1, one resolved import of the module source_id.  st carries the
\* locals graph, unresolved and new_files.
phase1_import(st, files, parse_failures, source_id, ri) ==
    IF ~ri.path.some
    THEN [st EXCEPT !.unresolved = @ \cup {ri.imp.specifier}]
    ELSE LET resolved == ri.path.value IN
         IF resolved \in DOMAIN st.graph.path_to_id
         THEN [st EXCEPT !.graph =
                  add_edge(@, source_id, st.graph.path_to_id[resolved],
                           ri.imp.kind, ri.imp.specifier).graph]
         ELSE LET added == add_module(st.graph, resolved,
                                      size_or_zero(files, resolved),
                                      package_name(resolved))
                  g2 == add_edge(added.graph, source_id, added.id,
                                 ri.imp.kind, ri.imp.specifier).graph
              IN  [st EXCEPT
                     !.graph = g2,
                     !.new_files =
                        IF is_parseable(resolved) /\ added.id \notin parse_failures
                        THEN Append(@, added.id) ELSE @]

\* Variant: the scan of a module's imports ends at the first import that
\* does not resolve
RECURSIVE phase1_imports_until_unresolved(_, _, _, _, _, _)
phase1_imports_until_unresolved(st, files, parse_failures, source_id, resolved_imports, i) ==
    IF i > Len(resolved_imports) THEN st
    ELSE IF ~resolved_imports[i].path.some
    THEN [st EXCEPT !.unresolved = @ \cup {resolved_imports[i].imp.specifier}]
    ELSE CHOOSE after \in
            {phase1_imports_until_unresolved(
                phase1_import(now, files, parse_failures, source_id, resolved_imports[i]),
                files, parse_failures, source_id, resolved_imports, i + 1) :
             now \in {st}} : TRUE

RECURSIVE phase1_imports(_, _, _, _, _, _)
phase1_imports(st, files, parse_failures, source_id, resolved_imports, i) ==
    IF i > Len(resolved_imports) THEN st
    ELSE CHOOSE after \in
            {phase1_imports(
                phase1_import(now, files, parse_failures, source_id, resolved_imports[i]),
                files, parse_failures, source_id, resolved_imports, i + 1) :
             now \in {st}} : TRUE

\* Phase 1, one frontier tuple
phase1_tuple(st, files, parse_failures, tuple) ==
    LET st1 == IF tuple.unresolvable_dynamic > 0
               THEN [st EXCEPT !.unresolvable_files =
                        Append(@, <<module(st.graph, tuple.source_id).path,
                                    tuple.unresolvable_dynamic>>)]
               ELSE st
    IN  phase1_imports(st1, files, parse_failures, tuple.source_id,
                       tuple.resolved_imports, 1)

\* Phase 1: serial graph mutations from the frontier, in order
RECURSIVE phase1(_, _, _, _, _)
phase1(st, files, parse_failures, frontier, i) ==
    IF i > Len(frontier) THEN st
    ELSE CHOOSE after \in
            {phase1(phase1_tuple(now, files, parse_failures, frontier[i]),
                    files, parse_failures, frontier, i + 1) :
             now \in {st}} : TRUE

\* Phase 2: the cache check of the new files, in order.  acc carries the
\* locals pending and to_parse.
RECURSIVE phase2(_, _, _, _, _, _)
phase2(acc, c, files, g, new_files, i) ==
    IF i > Len(new_files) THEN acc
    ELSE LET mid == new_files[i]
             hit == lookup(c, files, module(g, mid).path)
         IN  phase2(
                IF hit.some
                THEN [acc EXCEPT !.pending =
                         Append(@, [source_id |-> mid,
                                    unresolvable_dynamic |->
                                        hit.value.result.unresolvable_dynamic,
                                    resolved_imports |->
                                        zip_imports(hit.value.result.imports,
                                                    hit.value.resolved_paths)])]
                ELSE [acc EXCEPT !.to_parse = Append(@, mid)],
                c, files, g, new_files, i + 1)

\* Phase 3, the closure of one to_parse entry: parse, then resolve
parse_and_resolve(files, path) ==
    LET parsed == lang_parse(files, path) IN
    IF ~parsed.some THEN [state |-> "failed"]
    ELSE [state |-> "parsed", result |-> parsed.value,
          resolved |-> resolve_imports(files, parsed.value.imports)]

\* Variant: the results are gathered in the order the workers finished
RECURSIVE collect_results_as_completed(_, _, _)
collect_results_as_completed(to_parse, slots, completed) ==
    IF completed = <<>> THEN <<>>
    ELSE LET i == completed[1]
             rest == collect_results_as_completed(to_parse, slots, Tail(completed))
         IN  IF slots[i].state = "parsed"
             THEN <<[mid |-> to_parse[i], result |-> slots[i].result,
                     resolved |-> slots[i].resolved]>> \o rest
             ELSE rest

\* Phase 3, par_iter().filter_map(..).collect(): the successful results in
\* the order of to_parse, whatever order the workers finished in
RECURSIVE collect_results(_, _, _)
collect_results(to_parse, slots, completed) ==
    IF to_parse = <<>> THEN <<>>
    ELSE LET n == Len(to_parse)
             rest == collect_results(SubSeq(to_parse, 1, n - 1),
                                     SubSeq(slots, 1, n - 1), completed)
         IN  IF slots[n].state = "parsed"
             THEN Append(rest, [mid |-> to_parse[n], result |-> slots[n].result,
                                resolved |-> slots[n].resolved])
             ELSE rest

\* Variant: a failed parse is not remembered
failed_ids_forgotten(to_parse, results) == {}

\* The to_parse entries without a result: parse_failures.insert(mid.0)
failed_ids(to_parse, results) ==
    Range(to_parse) \ {results[i].mid : i \in 1..Len(results)}

\* The serial cache.insert of every result, in order
RECURSIVE insert_results(_, _, _, _, _)
insert_results(c, files, g, results, i) ==
    IF i > Len(results) THEN c
    ELSE insert_results(
            insert(c, files, module(g, results[i].mid).path,
                   cached_value(results[i].result, paths_of(results[i].resolved))),
            files, g, results, i + 1)

\* pending.extend(results.map(|(mid, _, unresolvable, resolved)| ..))
tuples_of(results) ==
    [i \in 1..Len(results) |->
        [source_id |-> results[i].mid,
         unresolvable_dynamic |-> results[i].result.unresolvable_dynamic,
         resolved_imports |-> results[i].resolved]]

RECURSIVE SumSizes(_, _)
SumSizes(g, ids) ==
    IF ids = {} THEN 0
    ELSE LET id == CHOOSE x \in ids : TRUE IN
         module(g, id).size_bytes + SumSizes(g, ids \ {id})

\* Variant: Static edges are followed into any package
RECURSIVE in_package_reach_any_target(_, _, _)
in_package_reach_any_target(g, name, ids) ==
    LET more == {g.edges[j].to : j \in {k \in 1..Len(g.edges) :
                    /\ g.edges[k].from \in ids
                    /\ g.edges[k].kind = "Static"}}
    IN  IF more \subseteq ids THEN ids
        ELSE in_package_reach_any_target(g, name, ids \cup more)

\* The modules of package name reachable from the set ids over Static
\* edges whose target is in the same package
RECURSIVE in_package_reach(_, _, _)
in_package_reach(g, name, ids) ==
    LET more == {g.edges[j].to : j \in {k \in 1..Len(g.edges) :
                    /\ g.edges[k].from \in ids
                    /\ g.edges[k].kind = "Static"
                    /\ module(g, g.edges[k].to).package = Some(name)}}
    IN  IF more \subseteq ids THEN ids ELSE in_package_reach(g, name, ids \cup more)

\* ModuleGraph::compute_package_info
compute_package_info(g) ==
    LET ids == 0..(Len(g.modules) - 1)
        names == {module(g, id).package.value : id \in {x \in ids : module(g, x).package.some}}
        members(name) == {id \in ids : module(g, id).package = Some(name)}
        first(name) == CHOOSE id \in members(name) : \A o \in members(name) : id <= o
        reach(name) == in_package_reach(g, name, members(name))
    IN  [g EXCEPT !.package_map =
            [name \in names |->
                [name |-> name, entry_module |-> first(name),
                 total_reachable_size |-> SumSizes(g, reach(name)),
                 total_reachable_files |-> Cardinality(reach(name))]]]

\* No try_load_graph call, no build_graph call, no command in progress
NoCall == [op |-> "none"]
TlIdle == [phase |-> "idle"]
BuildIdle ==
    [pc |-> "idle", entry |-> "", unresolvable_files |-> <<>>, unresolved |-> {},
     parse_failures |-> {}, pending |-> <<>>, to_parse |-> <<>>, slots |-> <<>>,
     completed |-> <<>>, unresolved_specifiers |-> <<>>,
     parses |-> [p \in Paths |-> 0], pushes |-> [p \in Paths |-> 0],
     cache0 |-> ParseCache_new, reordered |-> FALSE]
RunIdle ==
    [pc |-> "idle", runs |-> 0, entry |-> "", no_cache |-> FALSE, how |-> "none",
     code |-> 0, saves |-> 0, edits |-> 0, dirty |-> FALSE, since |-> FALSE,
     clock |-> 1, prev |-> None]

\* pending.push_back / pending.extend, counted per module in pushes
push_counts(pushes, g, tuples) ==
    [p \in Paths |->
        pushes[p] + Cardinality({i \in 1..Len(tuples) :
                                    module(g, tuples[i].source_id).path = p})]

\* build_graph up to the while loop: the entry module, then its parse from
\* the cache or from the parser
BuildStart ==
    /\ run.pc = "build"
    /\ build.pc = "idle"
    /\ LET entry == run.entry
           added == add_module(ModuleGraph_new, entry, size_or_zero(fs, entry), None)
           hit == lookup(cache, fs, entry)
           parsed == lang_parse(fs, entry)
           result == IF hit.some THEN hit.value.result ELSE parsed.value
           resolved_imports ==
               IF hit.some
               THEN zip_imports(result.imports, hit.value.resolved_paths)
               ELSE resolve_imports(fs, result.imports)
           tuple == [source_id |-> added.id, unresolvable_dynamic |-> 0,
                     resolved_imports |-> resolved_imports]
       IN  /\ graph' = added.graph
           /\ IF hit.some \/ parsed.some
              THEN /\ build' = [BuildIdle EXCEPT
                         !.pc = "loop",
                         !.entry = entry,
                         !.cache0 = cache,
                         !.unresolvable_files =
                             IF result.unresolvable_dynamic > 0
                             THEN <<<<entry, result.unresolvable_dynamic>>>>
                             ELSE <<>>,
                         !.pending = <<tuple>>,
                         !.parses[entry] = IF hit.some THEN 0 ELSE 1,
                         !.pushes[entry] = 1]
                   /\ cache' = IF hit.some THEN cache
                               ELSE insert(cache, fs, entry,
                                           cached_value(result, paths_of(resolved_imports)))
              ELSE /\ build' = [BuildIdle EXCEPT
                         !.pc = "loop",
                         !.entry = entry,
                         !.cache0 = cache,
                         !.parse_failures = {added.id},
                         !.parses[entry] = 1]
                   /\ cache' = cache
    /\ UNCHANGED <<call, fs, disk, recorded, tl, run>>

\* One pass of the while loop up to Phase 3: the frontier is drained, Phase 1
\* mutates the graph, Phase 2 asks the cache; both `continue`s lead back to
\* the loop test
BuildLevel ==
    /\ build.pc = "loop"
    /\ build.pending # <<>>
    /\ \E st \in {phase1([graph |-> graph, unresolved |-> build.unresolved,
                          unresolvable_files |-> build.unresolvable_files,
                          new_files |-> <<>>],
                         fs, build.parse_failures, build.pending, 1)} :
       \E acc \in {phase2([pending |-> <<>>, to_parse |-> <<>>],
                          cache, fs, st.graph, st.new_files, 1)} :
           /\ graph' = st.graph
           /\ build' = [build EXCEPT
                  !.unresolved = st.unresolved,
                  !.unresolvable_files = st.unresolvable_files,
                  !.pending = acc.pending,
                  !.pushes = push_counts(@, st.graph, acc.pending),
                  !.to_parse = acc.to_parse,
                  !.slots = [i \in 1..Len(acc.to_parse) |-> [state |-> "todo"]],
                  !.completed = <<>>,
                  !.pc = IF acc.to_parse = <<>> THEN "loop" ELSE "phase3"]
    /\ UNCHANGED <<call, fs, cache, disk, recorded, tl, run>>

\* Phase 3: a worker runs the closure for entry i of to_parse
ParseWorker(i) ==
    /\ build.pc = "phase3"
    /\ i \in 1..Len(build.to_parse)
    /\ build.slots[i].state = "todo"
    /\ LET path == module(graph, build.to_parse[i]).path IN
       build' = [build EXCEPT
                   !.slots[i] = parse_and_resolve(fs, path),
                   !.completed = Append(@, i),
                   !.reordered = @ \/ \E j \in Range(build.completed) : j > i,
                   !.parses[path] = @ + 1]
    /\ UNCHANGED <<graph, call, fs, cache, disk, recorded, tl, run>>

\* After Phase 3: the parse failures are recorded, the results are inserted
\* into the cache and appended to pending
BuildCollect ==
    /\ build.pc = "phase3"
    /\ \A i \in 1..Len(build.slots) : build.slots[i].state # "todo"
    /\ LET results == collect_results(build.to_parse, build.slots, build.completed)
       IN  /\ cache' = insert_results(cache, fs, graph, results, 1)
           /\ build' = [build EXCEPT
                  !.parse_failures = @ \cup failed_ids(build.to_parse, results),
                  !.pending = @ \o tuples_of(results),
                  !.pushes = push_counts(@, graph, tuples_of(results)),
                  !.to_parse = <<>>,
                  !.slots = <<>>,
                  !.completed = <<>>,
                  !.pc = "loop"]
    /\ UNCHANGED <<graph, call, fs, disk, recorded, tl, run>>

\* The queue is empty: package info and the BuildResult
BuildFinish ==
    /\ build.pc = "loop"
    /\ build.pending = <<>>
    /\ graph' = compute_package_info(graph)
    /\ \E order \in Orderings(build.unresolved) :
          build' = [build EXCEPT !.pc = "done", !.unresolved_specifiers = order]
    /\ UNCHANGED <<call, fs, cache, disk, recorded, tl, run>>

\* ParseCache::try_load_graph as one step: the parallel check has looked at
\* every file or has stopped at a mismatch, which gives the same `valid`
try_load_graph(c, files, entry, resolves) ==
    IF ~c.cached_graph.some THEN None
    ELSE LET cached == c.cached_graph.value IN
         IF cached.entry # entry THEN None
         ELSE try_load_result(
                 cached,
                 \A path \in DOMAIN cached.file_mtimes :
                     file_unchanged(files, path, cached.file_mtimes[path]),
                 resolves)

(***************************************************************************)
(* main.rs: the trace command                                              *)
(***************************************************************************)
\* The specifiers the language support resolves now: the resolves predicate
\* handed to try_load_graph
resolve_fn(files) ==
    {s \in {"./a", "./b", "./b-link", "./c", "n"} : lang_resolve(files, s).some}

RECURSIVE total_unresolvable(_)
total_unresolvable(unresolvable_files) ==
    IF unresolvable_files = <<>> THEN 0
    ELSE unresolvable_files[1][2] + total_unresolvable(Tail(unresolvable_files))

\* The number of trace commands run one after the other, and of file
\* changes made between them
MaxRuns == 3
MaxEdits == 1

\* What the previous command left behind, kept for comparison
finished(r, g, b, d) ==
    Some([entry |-> r.entry, how |-> r.how, code |-> r.code, graph |-> g, disk |-> d,
          cache0 |-> b.cache0, parses |-> b.parses, reordered |-> b.reordered])

\* Variant: --no-cache is not looked at, the cache is always loaded
MainStart_always_load(entry, no_cache) ==
    /\ run.pc \in {"idle", "exit"}
    /\ run.runs < MaxRuns
    /\ graph' = ModuleGraph_new
    /\ build' = BuildIdle
    /\ run' = [run EXCEPT !.pc = IF fs[entry].exists THEN "tier1" ELSE "exit",
                  !.runs = @ + 1, !.entry = entry,
                  !.no_cache = no_cache, !.how = "none",
                  !.code = IF fs[entry].exists THEN 0 ELSE 1,
                  !.saves = 0, !.since = run.dirty, !.dirty = FALSE,
                  !.prev = IF run.pc = "exit" THEN finished(run, graph, build, disk) ELSE @]
    /\ cache' = IF fs[entry].exists THEN load(disk) ELSE ParseCache_new
    /\ call' = NoCall
    /\ UNCHANGED <<fs, disk, recorded, tl>>

\* trace is started: the entry is canonicalized (exit 1 when it does not
\* exist), then the cache is loaded unless --no-cache
MainStart(entry, no_cache) ==
    /\ run.pc \in {"idle", "exit"}
    /\ run.runs < MaxRuns
    /\ graph' = ModuleGraph_new
    /\ build' = BuildIdle
    /\ IF ~fs[entry].exists
       THEN /\ run' = [run EXCEPT !.pc = "exit", !.runs = @ + 1, !.entry = entry,
                          !.no_cache = no_cache, !.how = "none", !.code = 1,
                          !.saves = 0, !.since = run.dirty, !.dirty = FALSE,
                          !.prev = IF run.pc = "exit" THEN finished(run, graph, build, disk) ELSE @]
            /\ cache' = ParseCache_new
       ELSE /\ run' = [run EXCEPT !.pc = IF no_cache THEN "build" ELSE "tier1",
                          !.runs = @ + 1, !.entry = entry,
                          !.no_cache = no_cache, !.how = "none", !.code = 0,
                          !.saves = 0, !.since = run.dirty, !.dirty = FALSE,
                          !.prev = IF run.pc = "exit" THEN finished(run, graph, build, disk) ELSE @]
            /\ cache' = IF no_cache THEN ParseCache_new ELSE load(disk)
    /\ call' = NoCall
    /\ UNCHANGED <<fs, disk, recorded, tl>>

\* The tier-1 fast path: Some(graph) goes straight to the query
MainTryLoad ==
    /\ run.pc = "tier1"
    /\ LET r == try_load_graph(cache, fs, run.entry, resolve_fn(fs)) IN
       IF r.some
       THEN /\ graph' = r.value.graph
            /\ run' = [run EXCEPT !.pc = "query", !.how = "cached"]
       ELSE /\ graph' = graph
            /\ run' = [run EXCEPT !.pc = "build"]
    /\ UNCHANGED <<call, fs, cache, disk, recorded, tl, build>>

\* build_graph has returned: the cache is saved.  The maps are written in
\* one of their iteration orders; load collects them into maps again, so
\* the order is without effect on what a later command loads
MainSave ==
    /\ run.pc = "build"
    /\ build.pc = "done"
    /\ disk' = Some(save_data(cache, fs, run.entry, graph, build.unresolved_specifiers,
                              total_unresolvable(build.unresolvable_files),
                              hash_order(DOMAIN cache.entries),
                              hash_order(DOMAIN save_file_mtimes(fs, graph))))
    /\ run' = [run EXCEPT !.pc = "query", !.how = "built", !.saves = @ + 1]
    /\ UNCHANGED <<graph, call, fs, cache, recorded, tl, build>>

\* --why P, --chain P, a plain trace, or a trace with --diff PATH
Modes == {"why", "chain", "trace"}
DiffPaths == {None, Some("b.ts"), Some("n.json")}

\* Variant: the diff entry is not checked
diff_exit_unchecked(files, g, diff) == 0

\* --diff: exit(1) when the diff entry cannot be canonicalized or is not
\* in the path index
diff_exit(files, g, diff) ==
    IF ~diff.some THEN 0
    ELSE IF ~files[diff.value].exists THEN 1
    ELSE IF diff.value \notin DOMAIN g.path_to_id THEN 1
    ELSE 0

\* The entry id is looked up in the path index (exit 1 when it is not
\* there); then --why and --chain run their query, print and return; a
\* trace runs query::trace, then the --diff checks, a second trace and the
\* diff report, or else the trace report
MainQuery(mode, diff) ==
    /\ run.pc = "query"
    /\ mode # "trace" => diff = None
    /\ IF run.entry \notin DOMAIN graph.path_to_id
       THEN /\ run' = [run EXCEPT !.pc = "exit", !.code = 1]
            /\ call' = [op |-> "exit", mode |-> mode, diff |-> diff,
                        queries |-> 0, reported |-> FALSE]
       ELSE IF mode # "trace"
       THEN /\ run' = [run EXCEPT !.pc = "exit", !.code = 0]
            /\ call' = [op |-> "exit", mode |-> mode, diff |-> diff,
                        queries |-> 1, reported |-> TRUE]
       ELSE /\ run' = [run EXCEPT !.pc = "exit", !.code = diff_exit(fs, graph, diff)]
            /\ call' = [op |-> "exit", mode |-> mode, diff |-> diff,
                        queries |-> IF diff.some /\ diff_exit(fs, graph, diff) = 0
                                    THEN 2 ELSE 1,
                        reported |-> diff_exit(fs, graph, diff) = 0]
    /\ UNCHANGED <<graph, fs, cache, disk, recorded, tl, build>>

(***************************************************************************)
(* Trace commands over a small project, with file changes in between       *)
(***************************************************************************)
MaxImports == 2
Entries == {"a.ts"}

\* The import statements a source file may contain, in the order they appear
ImportUniverse ==
    <<[specifier |-> "./b", kind |-> "Static"],
      [specifier |-> "./c", kind |-> "Dynamic"],
      [specifier |-> "n", kind |-> "Static"]>>

RECURSIVE Pick(_, _)
Pick(S, i) ==
    IF i > Len(ImportUniverse) THEN <<>>
    ELSE IF i \in S THEN <<ImportUniverse[i]>> \o Pick(S, i + 1)
    ELSE Pick(S, i + 1)

\* A malformed file, and a file with one import(variable)
Garbage == [ok |-> FALSE, imports |-> <<>>, dyn |-> 0]
DynOnly == [ok |-> TRUE, imports |-> <<>>, dyn |-> 1]

FileContents ==
    {[ok |-> TRUE, imports |-> Pick(S, 1), dyn |-> 0] :
        S \in {T \in SUBSET (1..Len(ImportUniverse)) : Cardinality(T) <= MaxImports}}
    \cup {Garbage, DynOnly}

\* What an edit between two commands may write
MaxEditImports == 1
EditContents == {c \in FileContents : Len(c.imports) <= MaxEditImports}

\* The length in bytes of a file with this content
file_size(content) == IF content.ok THEN 1 + Len(content.imports) + content.dyn ELSE 4

File(content, mtime) ==
    [exists |-> TRUE, mtime |-> mtime, size |-> file_size(content), content |-> content]

\* The files a walk from a.ts over the existing files can reach
\* The paths the imports of an existing source file name
imported_by(files, p) ==
    IF files[p].exists /\ is_parseable(p)
    THEN {SpecifierTarget(files[p].content.imports[i].specifier) :
             i \in 1..Len(files[p].content.imports)}
    ELSE {}

RECURSIVE Reached(_, _)
Reached(files, S) ==
    LET more == UNION {imported_by(files, p) : p \in S}
    IN  IF more \subseteq S THEN S ELSE Reached(files, S \cup more)

InitMain ==
    /\ graph = ModuleGraph_new
    /\ call = NoCall
    /\ fs \in [Paths -> {NoFile} \cup {File(c, 1) : c \in FileContents}]
    /\ fs["a.ts"].exists
    /\ fs["n.json"] = File(EmptyContent, 1)
    /\ \A p \in Paths \ {"n.json"} : fs[p].exists => p \in Reached(fs, {"a.ts"})
    /\ cache = ParseCache_new
    /\ disk = None
    /\ recorded = [p \in Paths |-> None]
    /\ tl = TlIdle
    /\ build = BuildIdle
    /\ run = RunIdle

\* Between two commands a file is rewritten or created (its modification
\* time is the time of the write) ...
EditWrite(path, content) ==
    /\ run.pc = "exit"
    /\ run.edits < MaxEdits
    /\ run.runs < MaxRuns
    /\ content # fs[path].content \/ ~fs[path].exists
    /\ fs' = [fs EXCEPT ![path] = File(content, run.clock + 1)]
    /\ run' = [run EXCEPT !.edits = @ + 1, !.dirty = TRUE, !.clock = @ + 1]
    /\ UNCHANGED <<graph, call, cache, disk, recorded, tl, build>>

\* ... or removed
EditRemove(path) ==
    /\ run.pc = "exit"
    /\ run.edits < MaxEdits
    /\ run.runs < MaxRuns
    /\ fs[path].exists
    /\ fs' = [fs EXCEPT ![path] = NoFile]
    /\ run' = [run EXCEPT !.edits = @ + 1, !.dirty = TRUE]
    /\ UNCHANGED <<graph, call, cache, disk, recorded, tl, build>>

NextMain ==
    \/ \E entry \in Entries, no_cache \in BOOLEAN : MainStart(entry, no_cache)
    \/ MainTryLoad
    \/ BuildStart
    \/ BuildLevel
    \/ \E i \in 1..Len(build.to_parse) : ParseWorker(i)
    \/ BuildCollect
    \/ BuildFinish
    \/ MainSave
    \/ \E mode \in Modes, diff \in DiffPaths : MainQuery(mode, diff)
    \/ \E path \in Paths \ {"n.json"}, content \in EditContents : EditWrite(path, content)
    \/ \E path \in Paths \ {"n.json"} : EditRemove(path)

SpecMain == InitMain /\ [][NextMain]_vars

(***************************************************************************)
(* build_graph called directly, again and again with the same ParseCache,  *)
(* as the tests in walker.rs call it                                       *)
(***************************************************************************)
MaxBuilds == 2

\* build_graph(entry, root, lang, &mut cache) is called
CallBuild(entry) ==
    /\ run.pc = "idle" \/ (run.pc = "build" /\ build.pc = "done")
    /\ run.runs < MaxBuilds
    /\ run' = [run EXCEPT !.pc = "build", !.runs = @ + 1, !.entry = entry]
    /\ build' = BuildIdle
    /\ graph' = ModuleGraph_new
    /\ UNCHANGED <<call, fs, cache, disk, recorded, tl>>

\* A build_graph call that has started keeps running: the coordinator and
\* the rayon workers are not suspended forever
BuildStep ==
    \/ BuildStart
    \/ BuildLevel
    \/ \E i \in 1..Len(build.to_parse) : ParseWorker(i)
    \/ BuildCollect
    \/ BuildFinish

NextBuild ==
    \/ \E entry \in Entries : CallBuild(entry)
    \/ BuildStart
    \/ BuildLevel
    \/ \E i \in 1..Len(build.to_parse) : ParseWorker(i)
    \/ BuildCollect
    \/ BuildFinish

SpecBuildFair == InitMain /\ [][NextBuild]_vars /\ WF_vars(BuildStep)

(***************************************************************************)
(* The graph store driven directly through its public operations           *)
(***************************************************************************)
GraphPaths == {"a.ts", "b.ts"}
GraphModuleArgs == {[size |-> 100, package |-> None], [size |-> 200, package |-> Some("p")]}
GraphSpecifiers == {"./b", "./link-to-b"}
MaxEdges == 2


InitGraph ==
    /\ graph = ModuleGraph_new
    /\ call = NoCall
    /\ fs = [p \in Paths |-> NoFile]
    /\ cache = ParseCache_new
    /\ disk = None
    /\ recorded = [p \in Paths |-> None]
    /\ tl = TlIdle
    /\ build = BuildIdle
    /\ run = RunIdle

AddModule(path, size_bytes, package) ==
    LET r == add_module(graph, path, size_bytes, package) IN
    /\ graph' = r.graph
    /\ call' = [op |-> "add_module", path |-> path, size_bytes |-> size_bytes,
                package |-> package, ret |-> r.id]
    /\ UNCHANGED <<fs, cache, disk, recorded, tl, build, run>>

AddEdge(from, to, kind, specifier) ==
    LET r == add_edge(graph, from, to, kind, specifier) IN
    /\ Len(r.graph.edges) <= MaxEdges
    /\ graph' = r.graph
    /\ call' = [op |-> "add_edge", from |-> from, to |-> to, kind |-> kind,
                specifier |-> specifier, ret |-> r.id]
    /\ UNCHANGED <<fs, cache, disk, recorded, tl, build, run>>

NextGraph ==
    \/ \E path \in GraphPaths, a \in GraphModuleArgs :
          AddModule(path, a.size, a.package)
    \/ \E from \in 0..(Len(graph.modules) - 1), to \in 0..(Len(graph.modules) - 1),
          kind \in EdgeKind, specifier \in GraphSpecifiers :
          AddEdge(from, to, kind, specifier)

SpecGraph == InitGraph /\ [][NextGraph]_vars

(***************************************************************************)
(* The parse cache driven through insert and lookup while files change     *)
(***************************************************************************)
CachePaths == {"a.ts", "b.ts"}
MaxMtime == 2
MaxSize == 2
\* -1 stands for a modification time before the epoch
Mtimes == {-1} \cup (1..MaxMtime)
Sizes == 1..MaxSize

\* Two parse results a caller may hand to insert (cache.rs tests)
SampleResults ==
    {[imports |-> <<[specifier |-> "os", kind |-> "Static"]>>,
      unresolvable_dynamic |-> 1],
     [imports |-> <<>>, unresolvable_dynamic |-> 0]}

InitCache ==
    /\ graph = ModuleGraph_new
    /\ call = NoCall
    /\ fs = [p \in Paths |-> NoFile]
    /\ cache = ParseCache_new
    /\ disk = None
    /\ recorded = [p \in Paths |-> None]
    /\ tl = TlIdle
    /\ build = BuildIdle
    /\ run = RunIdle

\* fs::write / touch: the file at path gets this modification time and size
FsWrite(path, mtime, size) ==
    /\ fs' = [fs EXCEPT ![path] = [exists |-> TRUE, mtime |-> mtime,
                                   size |-> size, content |-> @.content]]
    /\ fs'[path] # fs[path]
    /\ call' = [op |-> "write", path |-> path]
    /\ UNCHANGED <<graph, cache, disk, recorded, tl, build, run>>

\* fs::remove_file
FsRemove(path) ==
    /\ fs[path].exists
    /\ fs' = [fs EXCEPT ![path] = NoFile]
    /\ call' = [op |-> "remove_file", path |-> path]
    /\ UNCHANGED <<graph, cache, disk, recorded, tl, build, run>>

CacheInsert(path, result) ==
    /\ cache' = insert(cache, fs, path, result)
    /\ call' = [op |-> "insert", path |-> path, result |-> result]
    /\ recorded' = [recorded EXCEPT ![path] =
                      IF fs[path].exists /\ fs[path].mtime >= 0
                      THEN Some([result |-> result, mtime |-> fs[path].mtime,
                                 size |-> fs[path].size])
                      ELSE @]
    /\ UNCHANGED <<graph, fs, disk, tl, build, run>>

CacheLookup(path) ==
    /\ call' = [op |-> "lookup", path |-> path, ret |-> lookup(cache, fs, path)]
    /\ UNCHANGED <<graph, fs, cache, disk, recorded, tl, build, run>>

NextCache ==
    \/ \E path \in CachePaths, mtime \in Mtimes, size \in Sizes :
          FsWrite(path, mtime, size)
    \/ \E path \in CachePaths : FsRemove(path)
    \/ \E path \in CachePaths, result \in SampleResults : CacheInsert(path, result)
    \/ \E path \in CachePaths : CacheLookup(path)

SpecCache == InitCache /\ [][NextCache]_vars

\* C2: lookup(F) returns R exactly when R was the result last inserted for F
\* and F's current mtime and size equal the ones F had at that insertion; it
\* misses when F was modified so that mtime or size differ, when F is gone,
\* and when nothing was ever inserted for F.
C2_LookupHitIffUnchanged ==
    call.op = "lookup" =>
        LET rec == recorded[call.path]
            cur == fs[call.path]
        IN  IF /\ rec.some
               /\ cur.exists
               /\ cur.mtime = rec.value.mtime
               /\ cur.size = rec.value.size
            THEN call.ret = Some(rec.value.result)
            ELSE call.ret = None

\* A lookup that misses although a result was inserted: the file's size
\* changed since, its mtime did not
C2_Witness ==
    /\ call.op = "lookup"
    /\ call.ret = None
    /\ recorded[call.path].some
    /\ fs[call.path].exists
    /\ fs[call.path].mtime = recorded[call.path].value.mtime
    /\ fs[call.path].size # recorded[call.path].value.size

(***************************************************************************)
(* The snapshot driven as in the cache.rs tests: a graph is saved and      *)
(* loaded, files change, try_load_graph is called                          *)
(***************************************************************************)
TierPaths == {"a.ts", "b.ts"}
\* The module paths of the saved graph, in insertion order
TierGraphPaths == {<<>>, <<"a.ts">>, <<"b.ts">>, <<"a.ts", "b.ts">>}
TierUnresolved == {<<>>, <<"foo">>}
\* resolve_fn, as the set of specifiers it answers true for
TierResolves == {{}, {"foo"}}

\* graph.add_module(file, fs::metadata(file).len(), None) for each path
RECURSIVE GraphOfPaths(_, _)
GraphOfPaths(files, ps) ==
    IF ps = <<>> THEN ModuleGraph_new
    ELSE LET p == ps[Len(ps)] IN
         add_module(GraphOfPaths(files, SubSeq(ps, 1, Len(ps) - 1)),
                    p, files[p].size, None).graph

InitTier1 ==
    /\ graph = ModuleGraph_new
    /\ call = NoCall
    /\ fs \in [Paths -> {NoFile, [exists |-> TRUE, mtime |-> 1, size |-> 1,
                                  content |-> EmptyContent]}]
    /\ \A p \in Paths \ TierPaths : fs[p] = NoFile
    /\ cache = ParseCache_new
    /\ disk = None
    /\ recorded = [p \in Paths |-> None]
    /\ tl = TlIdle
    /\ build = BuildIdle
    /\ run = RunIdle

\* cache.save(&root, &entry, &graph, unresolved, n) on a fresh cache
TierSave(entry, ps, unresolved_specifiers, unresolvable_dynamic) ==
    /\ ~disk.some
    /\ disk' = Some(save_data(cache, fs, entry, GraphOfPaths(fs, ps),
                              unresolved_specifiers, unresolvable_dynamic,
                              hash_order(DOMAIN cache.entries),
                              hash_order(DOMAIN save_file_mtimes(fs, GraphOfPaths(fs, ps)))))
    /\ call' = [op |-> "save", entry |-> entry]
    /\ UNCHANGED <<graph, fs, cache, recorded, tl, build, run>>

\* loaded = ParseCache::load(&root)
TierLoad ==
    /\ disk.some
    /\ ~cache.cached_graph.some
    /\ cache' = load(disk)
    /\ call' = [op |-> "load"]
    /\ UNCHANGED <<graph, fs, disk, recorded, tl, build, run>>

\* The caller takes the result of try_load_graph
TryLoadReturn ==
    /\ tl.phase = "done"
    /\ tl' = TlIdle
    /\ call' = [op |-> "try_load_graph", entry |-> tl.entry, ret |-> tl.ret]
    /\ UNCHANGED <<graph, fs, cache, disk, recorded, build, run>>

NextTier1 ==
    \/ \E entry \in TierPaths, ps \in TierGraphPaths, u \in TierUnresolved :
          TierSave(entry, ps, u, 2)
    \/ tl.phase = "idle" /\ TierLoad
    \/ \E path \in TierPaths, mtime \in Mtimes, size \in Sizes :
          cache.cached_graph.some /\ tl.phase = "idle" /\ FsWrite(path, mtime, size)
    \/ \E path \in TierPaths :
          cache.cached_graph.some /\ tl.phase = "idle" /\ FsRemove(path)
    \/ \E entry \in TierPaths, resolves \in TierResolves :
          TryLoadBegin(entry, resolves)
    \/ \E path \in TierPaths : TryLoadCheckFlag(path)
    \/ \E path \in TierPaths : TryLoadStat(path)
    \/ TryLoadEnd
    \/ TryLoadReturn

SpecTier1 == InitTier1 /\ [][NextTier1]_vars

\* C3: try_load_graph(E, resolves) returns the snapshot's graph exactly when
\* a snapshot exists whose entry is E, every path of its mtime map has the
\* saved mtime and size now (a file that is gone or unreadable counts as
\* changed), and resolves is false for every previously unresolved
\* specifier; whichever way the parallel check interleaved.
C3_TryLoadIff ==
    tl.phase = "done" =>
        LET snap == cache.cached_graph
            Fresh == /\ snap.some
                     /\ snap.value.entry = tl.entry
                     /\ \A p \in DOMAIN snap.value.file_mtimes :
                           /\ fs[p].exists
                           /\ fs[p].mtime = snap.value.file_mtimes[p].mtime_nanos
                           /\ fs[p].size = snap.value.file_mtimes[p].size
                     /\ \A i \in 1..Len(snap.value.unresolved_specifiers) :
                           snap.value.unresolved_specifiers[i] \notin tl.resolves
        IN  /\ tl.ret.some <=> Fresh
            /\ tl.ret.some =>
                  /\ tl.ret.value.graph = snap.value.graph
                  /\ tl.ret.value.unresolvable_dynamic =
                        snap.value.unresolvable_dynamic

\* A snapshot of two files is rejected because a.ts was deleted; the check
\* of b.ts, which is unchanged, found the flag already false and was skipped
C3_Witness ==
    /\ tl.phase = "done"
    /\ ~tl.ret.some
    /\ DOMAIN tl.item = {"a.ts", "b.ts"}
    /\ ~fs["a.ts"].exists
    /\ file_unchanged(fs, "b.ts", cache.cached_graph.value.file_mtimes["b.ts"])
    /\ tl.item["a.ts"] = "checked"
    /\ tl.item["b.ts"] = "skipped"

\* The edges of g that carry the triple (from, to, kind)
(***************************************************************************)
(* The cache file: save writes it with fs::write (open with truncate, then *)
(* write), load reads it, other programs may have put a file there         *)
(***************************************************************************)
MaxSaves == 2

WriterIdle ==
    [pc |-> "idle", saves |-> 0, last |-> "none", old |-> None,
     new |-> Undecodable, saved |-> None, loaded |-> FALSE, foreign |-> FALSE]

\* A cache file left by a release with another CACHE_VERSION
OlderEnvelope ==
    [version |-> CACHE_VERSION - 1,
     parse_entries |->
        ("a.ts" :> [mtime_nanos |-> 1, size |-> 1,
                    result |-> [imports |-> <<>>, unresolvable_dynamic |-> 0]]),
     graph_cache |-> None]

\* The module paths of a saved graph, the entry first
FileGraphPaths == {<<"a.ts">>, <<"a.ts", "b.ts">>}

ForeignData == {Undecodable, serialize(OlderEnvelope, <<"a.ts">>, <<>>)}

InitFile ==
    /\ graph = ModuleGraph_new
    /\ call = NoCall
    /\ fs \in [Paths -> {NoFile, [exists |-> TRUE, mtime |-> 1, size |-> 1,
                                  content |-> EmptyContent]}]
    /\ \A p \in Paths \ TierPaths : fs[p] = NoFile
    /\ cache = ParseCache_new
    /\ disk = None
    /\ recorded = [p \in Paths |-> None]
    /\ tl = TlIdle
    /\ build = BuildIdle
    /\ run = WriterIdle

\* cache.insert(path, &result) before the first save
FileInsert(path, result) ==
    /\ run.pc = "idle"
    /\ run.saves = 0
    /\ cache' = insert(cache, fs, path, result)
    /\ cache' # cache
    /\ call' = [op |-> "insert", path |-> path]
    /\ UNCHANGED <<graph, fs, disk, recorded, tl, build, run>>

\* Something else has written the cache file
FileForeign(data) ==
    /\ run.pc = "idle"
    /\ run.saves = 0
    /\ ~disk.some
    /\ disk' = Some(data)
    /\ run' = [run EXCEPT !.foreign = TRUE]
    /\ call' = [op |-> "foreign"]
    /\ UNCHANGED <<graph, fs, cache, recorded, tl, build>>

\* ParseCache::save up to the point where fs::write has opened the file:
\* the file is truncated, none of the new bytes is in it yet
FileSaveBegin(entry, ps, unresolved_specifiers, unresolvable_dynamic) ==
    /\ run.pc = "idle"
    /\ run.saves < MaxSaves
    /\ \E parse_order \in Orderings(DOMAIN cache.entries),
          mtime_order \in Orderings(DOMAIN save_file_mtimes(fs, GraphOfPaths(fs, ps))) :
          run' = [run EXCEPT
                    !.pc = "writing",
                    !.saves = @ + 1,
                    !.old = disk,
                    !.new = save_data(cache, fs, entry, GraphOfPaths(fs, ps),
                                      unresolved_specifiers, unresolvable_dynamic,
                                      parse_order, mtime_order),
                    !.saved = Some([cache |-> cache, entry |-> entry,
                                    graph |-> GraphOfPaths(fs, ps),
                                    unresolvable_dynamic |-> unresolvable_dynamic]),
                    !.loaded = FALSE]
    /\ disk' = Some(Undecodable)
    /\ call' = [op |-> "save"]
    /\ UNCHANGED <<graph, fs, cache, recorded, tl, build>>

\* fs::write returns Ok: all bytes are in the file
FileSaveEnd ==
    /\ run.pc = "writing"
    /\ disk' = Some(run.new)
    /\ run' = [run EXCEPT !.pc = "idle", !.last = "complete"]
    /\ UNCHANGED <<graph, call, fs, cache, recorded, tl, build>>

\* fs::write returns Err after the open (say the disk is full): a warning
\* is printed and save returns
FileSaveError ==
    /\ run.pc = "writing"
    /\ run' = [run EXCEPT !.pc = "idle", !.last = "warned"]
    /\ UNCHANGED <<graph, call, fs, cache, disk, recorded, tl, build>>

\* The process is killed inside fs::write
FileKill ==
    /\ run.pc = "writing"
    /\ run' = [run EXCEPT !.pc = "idle", !.last = "killed"]
    /\ UNCHANGED <<graph, call, fs, cache, disk, recorded, tl, build>>

\* ParseCache::load, by this or by another process, at any moment
FileLoad ==
    /\ cache' = load(disk)
    /\ call' = [op |-> "load", during |-> run.pc, file |-> disk]
    /\ run' = [run EXCEPT !.loaded = (run.pc = "idle" /\ run.last = "complete")]
    /\ UNCHANGED <<graph, fs, disk, recorded, tl, build>>

\* loaded.lookup(path)
FileLookup(path) ==
    /\ run.loaded
    /\ call' = [op |-> "lookup", path |-> path, ret |-> lookup(cache, fs, path)]
    /\ UNCHANGED <<graph, fs, cache, disk, recorded, tl, build, run>>

\* loaded.try_load_graph(entry, &|_| false)
FileTryLoad(entry) ==
    /\ run.loaded
    /\ call' = [op |-> "try_load_graph", entry |-> entry,
                ret |-> try_load_graph(cache, fs, entry, {})]
    /\ UNCHANGED <<graph, fs, cache, disk, recorded, tl, build, run>>

NextFile ==
    \/ \E path \in TierPaths, result \in SampleResults : FileInsert(path, result)
    \/ \E data \in ForeignData : FileForeign(data)
    \/ \E ps \in FileGraphPaths, u \in TierUnresolved :
          FileSaveBegin(ps[1], ps, u, Len(u))
    \/ FileSaveEnd
    \/ FileSaveError
    \/ FileKill
    \/ FileLoad
    \/ \E path \in TierPaths : FileLookup(path)
    \/ \E entry \in TierPaths : FileTryLoad(entry)

SpecFile == InitFile /\ [][NextFile]_vars

(***************************************************************************)
(* walker.rs: concurrent_discover.  The call's shared objects (queue, seen, *)
(* results, active) and each worker's position are held in `call`; every    *)
(* step of a worker is one operation on a shared object, with the local     *)
(* work that precedes it.                                                   *)
(***************************************************************************)
\* rayon::current_num_threads()
NumWorkers == 2
Workers == 1..NumWorkers

\* A worker at the top of its loop, holding nothing
WorkerStart ==
    [pc |-> "loop", path |-> "", unresolvable_dynamic |-> 0, raw |-> <<>>,
     imports |-> <<>>, found |-> ""]

\* The Err arm of lang.parse: active.fetch_sub(1), the new counter
after_parse_error_no_sub(active) == active

after_parse_error(active) == active - 1

\* active.fetch_sub(1, AcqRel) == 1: this was the last active item
last_active(old) == old = 1

\* Variant: a worker returns as soon as queue.pop() gave None
all_done_when_queue_empty(active) == TRUE

\* active.load(Acquire) == 0, read after queue.pop() gave None
all_done(active) == active = 0

\* Variant: every resolved path counts as new
seen_insert_always(seen, path) == TRUE

\* seen.insert(p.clone()): true when the path was not in the set
seen_insert(seen, path) == path \notin seen

\* a.path.cmp(&b.path)
PathRank(path) ==
    CASE path = "a.ts" -> 1
      [] path = "b.ts" -> 2
      [] path = "c.ts" -> 3
      [] OTHER -> 4

\* Variant: the results are returned in the order the workers pushed them
sort_by_path_as_pushed(results) == results

\* results.sort_by(|a, b| a.path.cmp(&b.path)): a stable sort
RECURSIVE sort_by_path(_)
sort_by_path(results) ==
    IF results = <<>> THEN <<>>
    ELSE LET n == Len(results)
             sorted == sort_by_path(SubSeq(results, 1, n - 1))
             x == results[n]
             k == Cardinality({i \in 1..Len(sorted) :
                                  PathRank(sorted[i].path) <= PathRank(x.path)})
         IN  SubSeq(sorted, 1, k) \o <<x>> \o SubSeq(sorted, k + 1, Len(sorted))

\* The state at rayon::scope: the entry is queued, seen and counted
DiscoverBegin(entry) ==
    [op |-> "concurrent_discover",
     queue |-> <<entry>>,
     seen |-> {entry},
     results |-> <<>>,
     active |-> 1,
     enqueued |-> [p \in Paths |-> IF p = entry THEN 1 ELSE 0],
     parsed |-> [p \in Paths |-> 0],
     worker |-> [w \in Workers |-> WorkerStart]]

Discovering == call.op = "concurrent_discover"

\* queue.pop(): a path to work on, or None and on to the active.load
Pop(w) ==
    /\ Discovering
    /\ call.worker[w].pc = "loop"
    /\ call' = IF call.queue # <<>>
               THEN [call EXCEPT !.queue = Tail(@),
                                 !.worker[w].path = Head(call.queue),
                                 !.worker[w].pc = "parse"]
               ELSE [call EXCEPT !.worker[w].pc = "load"]
    /\ UNCHANGED <<graph, fs, cache, disk, recorded, tl, build, run>>

\* lang.parse(&path): on Err the counter is decremented and the loop
\* continues; on Ok the imports are walked next
Parse(w) ==
    /\ Discovering
    /\ call.worker[w].pc = "parse"
    /\ LET parsed == lang_parse(fs, call.worker[w].path) IN
       call' = IF ~parsed.some
               THEN [call EXCEPT !.active = after_parse_error(@),
                                 !.parsed[call.worker[w].path] = @ + 1,
                                 !.worker[w] = WorkerStart]
               ELSE [call EXCEPT
                        !.parsed[call.worker[w].path] = @ + 1,
                        !.worker[w].raw = parsed.value.imports,
                        !.worker[w].unresolvable_dynamic =
                            parsed.value.unresolvable_dynamic,
                        !.worker[w].imports = <<>>,
                        !.worker[w].pc = "imports"]
    /\ UNCHANGED <<graph, fs, cache, disk, recorded, tl, build, run>>

\* The closure of .map for the next import: resolve, then seen.insert for a
\* parseable target.  A target that was not seen before goes on to fetch_add.
Resolve(w) ==
    /\ Discovering
    /\ call.worker[w].pc = "imports"
    /\ Len(call.worker[w].imports) < Len(call.worker[w].raw)
    /\ LET imp == call.worker[w].raw[Len(call.worker[w].imports) + 1]
           resolved == lang_resolve(fs, imp.specifier)
       IN  call' = IF /\ resolved.some
                      /\ is_parseable(resolved.value)
                      /\ seen_insert(call.seen, resolved.value)
                   THEN [call EXCEPT !.seen = @ \cup {resolved.value},
                                     !.worker[w].found = resolved.value,
                                     !.worker[w].pc = "fetch_add"]
                   ELSE [call EXCEPT !.worker[w].imports =
                            Append(@, [imp |-> imp, path |-> resolved])]
    /\ UNCHANGED <<graph, fs, cache, disk, recorded, tl, build, run>>

\* active.fetch_add(1, AcqRel)
FetchAdd(w) ==
    /\ Discovering
    /\ call.worker[w].pc = "fetch_add"
    /\ call' = [call EXCEPT !.active = @ + 1, !.worker[w].pc = "push"]
    /\ UNCHANGED <<graph, fs, cache, disk, recorded, tl, build, run>>

\* queue.push(p.clone()); the closure returns (imp, resolved)
Push(w) ==
    /\ Discovering
    /\ call.worker[w].pc = "push"
    /\ LET imp == call.worker[w].raw[Len(call.worker[w].imports) + 1] IN
       call' = [call EXCEPT
                   !.queue = Append(@, call.worker[w].found),
                   !.enqueued[call.worker[w].found] = @ + 1,
                   !.worker[w].imports =
                       Append(@, [imp |-> imp, path |-> Some(call.worker[w].found)]),
                   !.worker[w].found = "",
                   !.worker[w].pc = "imports"]
    /\ UNCHANGED <<graph, fs, cache, disk, recorded, tl, build, run>>

\* results.lock().unwrap().push(file_result)
PushResult(w) ==
    /\ Discovering
    /\ call.worker[w].pc = "imports"
    /\ Len(call.worker[w].imports) = Len(call.worker[w].raw)
    /\ LET path == call.worker[w].path
           file_result ==
               [path |-> path,
                size |-> size_or_zero(fs, path),
                package |-> package_name(path),
                imports |-> call.worker[w].imports,
                unresolvable_dynamic |-> call.worker[w].unresolvable_dynamic]
       IN  call' = [call EXCEPT !.results = Append(@, file_result),
                                !.worker[w].pc = "fetch_sub"]
    /\ UNCHANGED <<graph, fs, cache, disk, recorded, tl, build, run>>

\* active.fetch_sub(1, AcqRel) == 1: return, else back to the loop.  (The
\* counter is a usize; a decrement at 0 would wrap to a non-zero value, as
\* -1 is here.)
FetchSub(w) ==
    /\ Discovering
    /\ call.worker[w].pc = "fetch_sub"
    /\ call' = [call EXCEPT
                   !.active = @ - 1,
                   !.worker[w] = [WorkerStart EXCEPT
                       !.pc = IF last_active(call.active) THEN "exited" ELSE "loop"]]
    /\ UNCHANGED <<graph, fs, cache, disk, recorded, tl, build, run>>

\* active.load(Acquire) == 0: return, else spin_loop() and loop again
Load(w) ==
    /\ Discovering
    /\ call.worker[w].pc = "load"
    /\ call' = [call EXCEPT !.worker[w].pc =
                   IF all_done(call.active) THEN "exited" ELSE "loop"]
    /\ UNCHANGED <<graph, fs, cache, disk, recorded, tl, build, run>>

WorkerStep(w) ==
    \/ Pop(w)
    \/ Parse(w)
    \/ Resolve(w)
    \/ FetchAdd(w)
    \/ Push(w)
    \/ PushResult(w)
    \/ FetchSub(w)
    \/ Load(w)

AllExited == Discovering /\ \A w \in Workers : call.worker[w].pc = "exited"

\* rayon::scope returns when every spawned worker has returned; the results
\* are sorted by path and returned
DiscoverReturn ==
    /\ AllExited
    /\ call' = [op |-> "discovered", results |-> sort_by_path(call.results),
                pushed |-> call.results,
                seen |-> call.seen, queue |-> call.queue, active |-> call.active,
                enqueued |-> call.enqueued, parsed |-> call.parsed]
    /\ UNCHANGED <<graph, fs, cache, disk, recorded, tl, build, run>>

\* The projects discovered: a.ts, b.ts and c.ts import each other, cycles
\* and malformed files included
DiscoverImports ==
    {<<>>,
     <<[specifier |-> "./b", kind |-> "Static"], [specifier |-> "./c", kind |-> "Dynamic"]>>,
     <<[specifier |-> "./a", kind |-> "Static"]>>,
     <<[specifier |-> "./c", kind |-> "Static"], [specifier |-> "n", kind |-> "Static"]>>,
     <<[specifier |-> "./b", kind |-> "Static"], [specifier |-> "./a", kind |-> "TypeOnly"]>>}
DiscoverContents ==
    {[ok |-> TRUE, imports |-> s, dyn |-> 0] : s \in DiscoverImports} \cup {Garbage}

InitDiscover ==
    /\ graph = ModuleGraph_new
    /\ fs \in [Paths -> {NoFile} \cup {File(c, 1) : c \in DiscoverContents}]
    /\ fs["a.ts"].exists
    /\ fs["n.json"] = File(EmptyContent, 1)
    /\ \A p \in Paths \ {"n.json"} : fs[p].exists => p \in Reached(fs, {"a.ts"})
    /\ call = DiscoverBegin("a.ts")
    /\ cache = ParseCache_new
    /\ disk = None
    /\ recorded = [p \in Paths |-> None]
    /\ tl = TlIdle
    /\ build = BuildIdle
    /\ run = RunIdle

NextDiscover ==
    \/ \E w \in Workers : Pop(w)
    \/ \E w \in Workers : Parse(w)
    \/ \E w \in Workers : Resolve(w)
    \/ \E w \in Workers : FetchAdd(w)
    \/ \E w \in Workers : Push(w)
    \/ \E w \in Workers : PushResult(w)
    \/ \E w \in Workers : FetchSub(w)
    \/ \E w \in Workers : Load(w)
    \/ DiscoverReturn

\* Every worker is a thread of the pool and keeps being scheduled
SpecDiscover ==
    /\ InitDiscover
    /\ [][NextDiscover]_vars
    /\ \A w \in Workers : WF_vars(WorkerStep(w))
    /\ WF_vars(DiscoverReturn)

(***************************************************************************)
(* lang/typescript/parser.rs: the import extractor.  A syntax tree is a     *)
(* record whose field n names the swc node type and whose other fields are  *)
(* the node's children; each walker gives the imports it pushes, in order.  *)
(***************************************************************************)
RawImport(specifier, kind) == [specifier |-> specifier, kind |-> kind]

\* Variant: a declaration with no specifiers counts as all type-only
all_type_vacuous(specifiers) ==
    \A i \in 1..Len(specifiers) :
        specifiers[i].s = "Named" /\ specifiers[i].is_type_only

\* !specifiers.is_empty() && specifiers.iter().all(Named(n) => n.is_type_only)
all_type(specifiers) ==
    /\ specifiers # <<>>
    /\ \A i \in 1..Len(specifiers) :
          specifiers[i].s = "Named" /\ specifiers[i].is_type_only

\* extract_from_decl: the imports pushed for one module declaration
extract_from_decl(decl) ==
    CASE decl.n = "ModuleDecl::Import" ->
            <<RawImport(decl.src,
                        IF decl.type_only THEN "TypeOnly"
                        ELSE IF all_type(decl.specifiers) THEN "TypeOnly"
                        ELSE "Static")>>
      [] decl.n = "ModuleDecl::ExportAll" ->
            <<RawImport(decl.src, IF decl.type_only THEN "TypeOnly" ELSE "Static")>>
      [] decl.n = "ModuleDecl::ExportNamed" ->
            IF decl.src.some
            THEN <<RawImport(decl.src.value,
                             IF decl.type_only THEN "TypeOnly"
                             ELSE IF all_type(decl.specifiers) THEN "TypeOnly"
                             ELSE "Static")>>
            ELSE <<>>
      [] OTHER -> <<>>

\* let Some(arg) = call.args.first() && let Expr::Lit(Lit::Str(s)) = arg.expr
literal_first_arg(args) ==
    /\ args # <<>>
    /\ args[1].n = "Expr::Lit"
    /\ args[1].lit = "Str"

\* Variant: any callee named require, a member access included
is_require_any(callee) ==
    /\ callee.c = "Expr"
    /\ \/ callee.expr.n = "Expr::Ident" /\ callee.expr.sym = "require"
       \/ /\ callee.expr.n = "Expr::Member"
          /\ callee.expr.obj.n = "Expr::Ident"
          /\ callee.expr.obj.sym = "require"

\* Callee::Expr(callee_expr) with Expr::Ident whose sym is "require"
is_require(callee) ==
    /\ callee.c = "Expr"
    /\ callee.expr.n = "Expr::Ident"
    /\ callee.expr.sym = "require"

\* The increment of the ParseResult's unresolvable_dynamic counter for an
\* import() or require() whose argument is not a string literal.  The
\* counter is read by walker.rs; the walkers carry each increment as a mark
\* in the sequence they return, and parse_file counts the marks.
unresolvable == <<[specifier |-> "", kind |-> "Unresolvable"]>>

RECURSIVE walk_stmt(_), walk_stmts(_, _), walk_decl(_), walk_var_decls(_, _)
RECURSIVE walk_expr(_), walk_exprs(_, _), walk_cases(_, _), walk_elems(_, _)
RECURSIVE walk_props(_, _)

\* for s in &stmts { walk_stmt(s, imports) }
walk_stmts(stmts, i) ==
    IF i > Len(stmts) THEN <<>>
    ELSE walk_stmt(stmts[i]) \o walk_stmts(stmts, i + 1)

\* for e in &exprs { walk_expr(e, imports) }
walk_exprs(exprs, i) ==
    IF i > Len(exprs) THEN <<>>
    ELSE walk_expr(exprs[i]) \o walk_exprs(exprs, i + 1)

\* for case in &switch.cases { for s in &case.cons { walk_stmt } }
walk_cases(cases, i) ==
    IF i > Len(cases) THEN <<>>
    ELSE walk_stmts(cases[i].cons, 1) \o walk_cases(cases, i + 1)

\* for decl in &var_decl.decls { if let Some(init) = &decl.init { walk_expr } }
walk_var_decls(decls, i) ==
    IF i > Len(decls) THEN <<>>
    ELSE (IF decls[i].init.some THEN walk_expr(decls[i].init.value) ELSE <<>>)
         \o walk_var_decls(decls, i + 1)

\* for elem in array.elems.iter().flatten() { walk_expr(&elem.expr) }
walk_elems(elems, i) ==
    IF i > Len(elems) THEN <<>>
    ELSE (IF elems[i].some THEN walk_expr(elems[i].value) ELSE <<>>)
         \o walk_elems(elems, i + 1)

\* for prop in &object.props: the value of a KeyValue, the expr of a Spread
walk_props(props, i) ==
    IF i > Len(props) THEN <<>>
    ELSE (CASE props[i].p = "KeyValue" -> walk_expr(props[i].value)
            [] props[i].p = "Spread" -> walk_expr(props[i].expr)
            [] OTHER -> <<>>)
         \o walk_props(props, i + 1)

\* walk_stmt
walk_stmt(stmt) ==
    CASE stmt.n = "Stmt::Expr" -> walk_expr(stmt.expr)
      [] stmt.n = "Stmt::Decl" -> walk_decl(stmt.decl)
      [] stmt.n = "Stmt::Block" -> walk_stmts(stmt.stmts, 1)
      [] stmt.n = "Stmt::If" ->
            walk_stmt(stmt.cons)
            \o (IF stmt.alt.some THEN walk_stmt(stmt.alt.value) ELSE <<>>)
      [] stmt.n = "Stmt::Switch" ->
            walk_expr(stmt.discriminant) \o walk_cases(stmt.cases, 1)
      [] stmt.n = "Stmt::Try" ->
            walk_stmts(stmt.block, 1)
            \o (IF stmt.handler.some THEN walk_stmts(stmt.handler.value, 1) ELSE <<>>)
            \o (IF stmt.finalizer.some THEN walk_stmts(stmt.finalizer.value, 1) ELSE <<>>)
      [] stmt.n \in {"Stmt::While", "Stmt::DoWhile", "Stmt::For", "Stmt::ForIn",
                     "Stmt::ForOf", "Stmt::Labeled"} -> walk_stmt(stmt.body)
      [] stmt.n = "Stmt::Return" ->
            IF stmt.arg.some THEN walk_expr(stmt.arg.value) ELSE <<>>
      [] OTHER -> <<>>

\* walk_decl
walk_decl(decl) ==
    CASE decl.n = "Decl::Var" -> walk_var_decls(decl.decls, 1)
      [] decl.n = "Decl::Fn" ->
            IF decl.body.some THEN walk_stmts(decl.body.value, 1) ELSE <<>>
      [] OTHER -> <<>>

\* walk_expr
walk_expr(expr) ==
    CASE expr.n = "Expr::Call" ->
            IF expr.callee.c = "Import"
            THEN IF literal_first_arg(expr.args)
                 THEN <<RawImport(expr.args[1].value, "Dynamic")>>
                 ELSE unresolvable
            ELSE IF is_require(expr.callee)
            THEN IF literal_first_arg(expr.args)
                 THEN <<RawImport(expr.args[1].value, "Static")>>
                 ELSE unresolvable
            ELSE (IF expr.callee.c = "Expr" THEN walk_expr(expr.callee.expr) ELSE <<>>)
                 \o walk_exprs(expr.args, 1)
      [] expr.n = "Expr::Arrow" ->
            IF expr.body.b = "BlockStmt"
            THEN walk_stmts(expr.body.stmts, 1)
            ELSE walk_expr(expr.body.expr)
      [] expr.n = "Expr::Fn" ->
            IF expr.body.some THEN walk_stmts(expr.body.value, 1) ELSE <<>>
      [] expr.n = "Expr::Assign" -> walk_expr(expr.right)
      [] expr.n = "Expr::Seq" -> walk_exprs(expr.exprs, 1)
      [] expr.n = "Expr::Paren" -> walk_expr(expr.expr)
      [] expr.n = "Expr::Await" -> walk_expr(expr.arg)
      [] expr.n = "Expr::Cond" ->
            walk_expr(expr.test) \o walk_expr(expr.cons) \o walk_expr(expr.alt)
      [] expr.n = "Expr::Bin" -> walk_expr(expr.left) \o walk_expr(expr.right)
      [] expr.n = "Expr::Unary" -> walk_expr(expr.arg)
      [] expr.n = "Expr::Member" -> walk_expr(expr.obj)
      [] expr.n = "Expr::Array" -> walk_elems(expr.elems, 1)
      [] expr.n = "Expr::Object" -> walk_props(expr.props, 1)
      [] expr.n = "Expr::Tpl" -> walk_exprs(expr.exprs, 1)
      [] OTHER -> <<>>

\* extract_imports: the module items in order
RECURSIVE extract_imports(_, _)
extract_imports(body, i) ==
    IF i > Len(body) THEN <<>>
    ELSE (IF body[i].item = "ModuleDecl"
          THEN extract_from_decl(body[i].decl)
          ELSE walk_stmt(body[i].stmt))
         \o extract_imports(body, i + 1)

\* parse_file past the parser: the ParseResult of a module body
IsImport(push) == push.kind \in EdgeKind
IsMark(push) == push.kind = "Unresolvable"
parse_file(body) ==
    [imports |-> SelectSeq(extract_imports(body, 1), IsImport),
     unresolvable_dynamic |-> Len(SelectSeq(extract_imports(body, 1), IsMark))]

(***************************************************************************)
(* Syntax trees the extractor is run on                                    *)
(***************************************************************************)
Ident(sym) == [n |-> "Expr::Ident", sym |-> sym]
Str(value) == [n |-> "Expr::Lit", lit |-> "Str", value |-> value]
CalleeImport == [c |-> "Import"]
CalleeExpr(expr) == [c |-> "Expr", expr |-> expr]
Call(callee, args) == [n |-> "Expr::Call", callee |-> callee, args |-> args]
Member(obj, prop) == [n |-> "Expr::Member", obj |-> obj, prop |-> prop]
Bin(left, right) == [n |-> "Expr::Bin", left |-> left, right |-> right]
Tpl(exprs) == [n |-> "Expr::Tpl", exprs |-> exprs]
Arrow(expr) == [n |-> "Expr::Arrow", body |-> [b |-> "Expr", expr |-> expr]]
ExprStmt(expr) == [n |-> "Stmt::Expr", expr |-> expr]
EmptyStmt == [n |-> "Stmt::Empty"]
Computed(expr) == [computed |-> TRUE, expr |-> expr]
Name(sym) == [computed |-> FALSE, sym |-> sym]

\* import("X"), require("X") and the calls that are no imports
LeafExprs ==
    {Call(CalleeImport, <<Str("X")>>),
     Call(CalleeExpr(Ident("require")), <<Str("X")>>),
     Call(CalleeExpr(Ident("require")), <<Ident("v")>>),
     Call(CalleeImport, <<Ident("v")>>),
     Call(CalleeExpr(Ident("require")), <<Bin(Str("a"), Str("b"))>>),
     Call(CalleeImport, <<Tpl(<<Ident("v")>>)>>),
     Call(CalleeExpr(Member(Ident("require"), Name("resolve"))), <<Str("X")>>),
     Call(CalleeExpr(Member(Ident("m"), Name("require"))), <<Str("X")>>),
     Call(CalleeExpr(Ident("f")), <<Str("X")>>)}

\* A second import, to tell the order of two
Sibling == Call(CalleeExpr(Ident("require")), <<Str("S")>>)

\* The expressions with x as a direct child
ExprWraps(x) ==
    {Call(CalleeExpr(Ident("f")), <<x>>),
     Call(CalleeExpr(Ident("f")), <<Sibling, x>>),
     Call(CalleeExpr(Ident("f")), <<x, Sibling>>),
     Call(CalleeExpr(x), <<Sibling>>),
     Call(CalleeExpr(Member(x, Name("then"))), <<Arrow(Sibling)>>),
     Call(CalleeImport, <<x>>),
     Call(CalleeExpr(Ident("require")), <<x>>),
     Call(CalleeImport, <<Str("S"), x>>),
     Call(CalleeExpr(Ident("require")), <<Str("S"), x>>),
     Arrow(x),
     [n |-> "Expr::Arrow", body |-> [b |-> "BlockStmt", stmts |-> <<ExprStmt(x)>>]],
     [n |-> "Expr::Fn", body |-> Some(<<ExprStmt(x)>>)],
     [n |-> "Expr::Assign", left |-> Ident("t"), right |-> x],
     [n |-> "Expr::Assign", left |-> Member(Ident("t"), Computed(x)), right |-> Sibling],
     [n |-> "Expr::Seq", exprs |-> <<Sibling, x>>],
     [n |-> "Expr::Seq", exprs |-> <<x, Sibling>>],
     [n |-> "Expr::Paren", expr |-> x],
     [n |-> "Expr::Await", arg |-> x],
     [n |-> "Expr::Cond", test |-> x, cons |-> Sibling, alt |-> Ident("v")],
     [n |-> "Expr::Cond", test |-> Ident("v"), cons |-> x, alt |-> Sibling],
     [n |-> "Expr::Cond", test |-> Ident("v"), cons |-> Sibling, alt |-> x],
     Bin(x, Sibling),
     Bin(Sibling, x),
     [n |-> "Expr::Unary", arg |-> x],
     Member(x, Name("p")),
     Member(Ident("t"), Computed(x)),
     [n |-> "Expr::Array", elems |-> <<None, Some(x)>>],
     [n |-> "Expr::Array", elems |-> <<Some(Sibling), Some(x)>>],
     [n |-> "Expr::Object", props |-> <<[p |-> "KeyValue", value |-> x]>>],
     [n |-> "Expr::Object", props |-> <<[p |-> "Shorthand"], [p |-> "Spread", expr |-> x]>>],
     Tpl(<<x>>),
     Tpl(<<Sibling, x>>)}

\* The statements with the expression x as a direct child
StmtsOfExpr(x) ==
    {ExprStmt(x),
     [n |-> "Stmt::Return", arg |-> Some(x)],
     [n |-> "Stmt::Switch", discriminant |-> x, cases |-> <<>>],
     [n |-> "Stmt::Switch", discriminant |-> Ident("v"),
      cases |-> <<[test |-> Some(x), cons |-> <<>>]>>],
     [n |-> "Stmt::If", test |-> x, cons |-> EmptyStmt, alt |-> None],
     [n |-> "Stmt::While", test |-> x, body |-> EmptyStmt],
     [n |-> "Stmt::DoWhile", test |-> x, body |-> EmptyStmt],
     [n |-> "Stmt::For", init |-> Some(x), test |-> None, update |-> None,
      body |-> EmptyStmt],
     [n |-> "Stmt::For", init |-> None, test |-> Some(x), update |-> None,
      body |-> EmptyStmt],
     [n |-> "Stmt::ForIn", right |-> x, body |-> EmptyStmt],
     [n |-> "Stmt::ForOf", right |-> x, body |-> EmptyStmt],
     [n |-> "Stmt::Decl", decl |-> [n |-> "Decl::Var",
                                    decls |-> <<[init |-> None], [init |-> Some(x)]>>]]}

\* The statements with the statement st as a direct child
StmtWraps(st) ==
    {[n |-> "Stmt::Block", stmts |-> <<ExprStmt(Sibling), st>>],
     [n |-> "Stmt::If", test |-> Ident("v"), cons |-> st, alt |-> None],
     [n |-> "Stmt::If", test |-> Ident("v"), cons |-> ExprStmt(Sibling), alt |-> Some(st)],
     [n |-> "Stmt::Switch", discriminant |-> Ident("v"),
      cases |-> <<[test |-> None, cons |-> <<st>>]>>],
     [n |-> "Stmt::Try", block |-> <<st>>, handler |-> None, finalizer |-> None],
     [n |-> "Stmt::Try", block |-> <<ExprStmt(Sibling)>>, handler |-> Some(<<st>>),
      finalizer |-> None],
     [n |-> "Stmt::Try", block |-> <<>>, handler |-> None, finalizer |-> Some(<<st>>)],
     [n |-> "Stmt::While", test |-> Ident("v"), body |-> st],
     [n |-> "Stmt::DoWhile", test |-> Ident("v"), body |-> st],
     [n |-> "Stmt::For", init |-> None, test |-> None, update |-> None, body |-> st],
     [n |-> "Stmt::ForIn", right |-> Ident("v"), body |-> st],
     [n |-> "Stmt::ForOf", right |-> Ident("v"), body |-> st],
     [n |-> "Stmt::Labeled", body |-> st],
     [n |-> "Stmt::Decl", decl |-> [n |-> "Decl::Fn", body |-> Some(<<st>>)]]}

\* Import and export declarations with up to MaxSpecifiers specifiers
MaxSpecifiers == 2
ImportSpecifiers ==
    {[s |-> "Named", is_type_only |-> TRUE], [s |-> "Named", is_type_only |-> FALSE],
     [s |-> "Default", is_type_only |-> FALSE], [s |-> "Namespace", is_type_only |-> FALSE]}
ExportSpecifiers ==
    {[s |-> "Named", is_type_only |-> TRUE], [s |-> "Named", is_type_only |-> FALSE],
     [s |-> "Namespace", is_type_only |-> FALSE]}
SeqsUpTo(S, k) == UNION {[1..m -> S] : m \in 0..k}
ModuleDecls ==
    {[n |-> "ModuleDecl::Import", type_only |-> ty, specifiers |-> sp, src |-> "M"] :
        ty \in BOOLEAN, sp \in SeqsUpTo(ImportSpecifiers, MaxSpecifiers)}
    \cup {[n |-> "ModuleDecl::ExportAll", type_only |-> ty, src |-> "M"] : ty \in BOOLEAN}
    \cup {[n |-> "ModuleDecl::ExportNamed", type_only |-> ty, specifiers |-> sp,
           src |-> src] :
             ty \in BOOLEAN, sp \in SeqsUpTo(ExportSpecifiers, MaxSpecifiers),
             src \in {None, Some("M")}}
    \cup {[n |-> "ModuleDecl::ExportDefaultExpr"]}

\* A module being written: its declaration, the expression and the statement
\* built so far, the number of nestings, and the result once it is parsed
MaxNesting == 2
ParseBegin(expr) ==
    [op |-> "parse_file", decls |-> <<>>, expr |-> expr, stmt |-> None,
     nesting |-> 0, result |-> None]

Writing == call.op = "parse_file" /\ ~call.result.some

InitParse ==
    /\ graph = ModuleGraph_new
    /\ fs = [p \in Paths |-> NoFile]
    /\ call \in {ParseBegin(x) : x \in LeafExprs}
    /\ cache = ParseCache_new
    /\ disk = None
    /\ recorded = [p \in Paths |-> None]
    /\ tl = TlIdle
    /\ build = BuildIdle
    /\ run = RunIdle

\* The module starts with an import or export declaration
WriteDecl(decl) ==
    /\ Writing
    /\ call.decls = <<>>
    /\ call.nesting = 0
    /\ ~call.stmt.some
    /\ call' = [call EXCEPT !.decls = <<[item |-> "ModuleDecl", decl |-> decl]>>]
    /\ UNCHANGED <<graph, fs, cache, disk, recorded, tl, build, run>>

\* The expression is put inside a larger expression
NestExpr ==
    /\ Writing
    /\ call.decls = <<>>
    /\ ~call.stmt.some
    /\ call.nesting < MaxNesting
    /\ \E e \in ExprWraps(call.expr) :
          call' = [call EXCEPT !.expr = e, !.nesting = @ + 1]
    /\ UNCHANGED <<graph, fs, cache, disk, recorded, tl, build, run>>

\* The expression is put into a statement
WriteStmt ==
    /\ Writing
    /\ ~call.stmt.some
    /\ \E st \in StmtsOfExpr(call.expr) : call' = [call EXCEPT !.stmt = Some(st)]
    /\ UNCHANGED <<graph, fs, cache, disk, recorded, tl, build, run>>

\* The statement is put inside a larger statement
NestStmt ==
    /\ Writing
    /\ call.decls = <<>>
    /\ call.stmt.some
    /\ call.nesting < MaxNesting
    /\ \E st \in StmtWraps(call.stmt.value) :
          call' = [call EXCEPT !.stmt = Some(st), !.nesting = @ + 1]
    /\ UNCHANGED <<graph, fs, cache, disk, recorded, tl, build, run>>

\* The body of the module as written
ModuleBody(c) ==
    c.decls \o (IF c.stmt.some THEN <<[item |-> "Stmt", stmt |-> c.stmt.value]>> ELSE <<>>)

\* parse_file on the module
ParseFile ==
    /\ Writing
    /\ ModuleBody(call) # <<>>
    /\ call' = [call EXCEPT !.result = Some(parse_file(ModuleBody(call)))]
    /\ UNCHANGED <<graph, fs, cache, disk, recorded, tl, build, run>>

NextParse ==
    \/ \E decl \in ModuleDecls : WriteDecl(decl)
    \/ NestExpr
    \/ WriteStmt
    \/ NestStmt
    \/ ParseFile

SpecParse == InitParse /\ [][NextParse]_vars

(***************************************************************************)
(* The query layer (query::trace, find_chain, find_all_chains), called by   *)
(* main.rs on the graph through outgoing_edges, edge and module             *)
(***************************************************************************)
\* One module dequeued: its outgoing edges in insertion order; an edge of a
\* followed kind to a module not yet visited marks and enqueues the target
RECURSIVE visit_edges(_, _, _, _, _)
visit_edges(g, adj, i, visited, kinds) ==
    IF i > Len(adj) THEN [visited |-> visited, found |-> <<>>]
    ELSE LET e == edge(g, adj[i]) IN
         IF e.kind \in kinds /\ e.to \notin visited
         THEN LET r == visit_edges(g, adj, i + 1, visited \cup {e.to}, kinds)
              IN  [visited |-> r.visited, found |-> <<e.to>> \o r.found]
         ELSE visit_edges(g, adj, i + 1, visited, kinds)

\* BFS from the queue: the set of modules visited
RECURSIVE bfs(_, _, _, _)
bfs(g, queue, visited, kinds) ==
    IF queue = <<>> THEN visited
    ELSE LET r == visit_edges(g, outgoing_edges(g, Head(queue)), 1, visited, kinds)
         IN  bfs(g, Tail(queue) \o r.found, r.visited, kinds)

\* Variant: the dynamic-only bucket holds every module behind a Dynamic edge
trace_bucket_overlapping(g, entry, include_dynamic) ==
    LET followed == IF include_dynamic THEN {"Static", "Dynamic"} ELSE {"Static"}
        static == bfs(g, <<entry>>, {entry}, followed)
        all == bfs(g, <<entry>>, {entry}, {"Static", "Dynamic"})
        dynamic_only == IF include_dynamic THEN {}
                        ELSE {id \in all : \E j \in 1..Len(g.edges) :
                                 g.edges[j].to = id /\ g.edges[j].kind = "Dynamic"}
    IN  [static_weight |-> SumSizes(g, static),
         static_module_count |-> Cardinality(static),
         dynamic_only_weight |-> SumSizes(g, dynamic_only),
         dynamic_only_module_count |-> Cardinality(dynamic_only)]

\* query::trace: the weights and counts of the TraceResult
trace(g, entry, include_dynamic) ==
    LET followed == IF include_dynamic THEN {"Static", "Dynamic"} ELSE {"Static"}
        static == bfs(g, <<entry>>, {entry}, followed)
        all == bfs(g, <<entry>>, {entry}, {"Static", "Dynamic"})
        dynamic_only == IF include_dynamic THEN {} ELSE all \ static
    IN  [static_weight |-> SumSizes(g, static),
         static_module_count |-> Cardinality(static),
         dynamic_only_weight |-> SumSizes(g, dynamic_only),
         dynamic_only_module_count |-> Cardinality(dynamic_only)]

\* The predecessor chain from the entry (its own predecessor) to id
RECURSIVE chain_to(_, _)
chain_to(pred, id) ==
    IF pred[id] = id THEN <<id>> ELSE Append(chain_to(pred, pred[id]), id)

\* One module dequeued in the chain search: the Static edges in insertion
\* order; a target seen for the first time gets its predecessor
RECURSIVE chain_edges(_, _, _, _, _)
chain_edges(g, adj, i, from, pred) ==
    IF i > Len(adj) THEN [pred |-> pred, found |-> <<>>]
    ELSE LET e == edge(g, adj[i]) IN
         IF e.kind = "Static" /\ e.to \notin DOMAIN pred
         THEN LET r == chain_edges(g, adj, i + 1, from, (e.to :> from) @@ pred)
              IN  [pred |-> r.pred, found |-> <<e.to>> \o r.found]
         ELSE chain_edges(g, adj, i + 1, from, pred)

\* Variant: the search goes depth-first, the newest module is taken first
RECURSIVE chain_search_depth_first(_, _, _, _)
chain_search_depth_first(g, queue, pred, package) ==
    IF queue = <<>> THEN <<>>
    ELSE LET id == queue[Len(queue)] IN
         IF module(g, id).package = Some(package) THEN chain_to(pred, id)
         ELSE LET r == chain_edges(g, outgoing_edges(g, id), 1, id, pred)
              IN  chain_search_depth_first(g, SubSeq(queue, 1, Len(queue) - 1) \o r.found,
                                           r.pred, package)

\* BFS over Static edges; stops when a module of the package is dequeued
RECURSIVE chain_search(_, _, _, _)
chain_search(g, queue, pred, package) ==
    IF queue = <<>> THEN <<>>
    ELSE LET id == Head(queue) IN
         IF module(g, id).package = Some(package) THEN chain_to(pred, id)
         ELSE LET r == chain_edges(g, outgoing_edges(g, id), 1, id, pred)
              IN  chain_search(g, Tail(queue) \o r.found, r.pred, package)

\* query::find_chain: the shortest chain from the entry to the package
find_chain(g, entry, package) == chain_search(g, <<entry>>, (entry :> entry), package)

\* Variant: the enumeration does not stop at d* hops but at any module of
\* the package
RECURSIVE chains_from_unpruned(_, _, _, _, _)
chains_from_unpruned(g, path, i, hops, package) ==
    LET last == path[Len(path)]
        adj == outgoing_edges(g, last)
    IN  IF module(g, last).package = Some(package) THEN <<path>>
        ELSE IF i > Len(adj) THEN <<>>
        ELSE LET e == edge(g, adj[i]) IN
             (IF e.kind = "Static" /\ e.to \notin Range(path)
              THEN chains_from_unpruned(g, Append(path, e.to), 1, hops, package)
              ELSE <<>>)
             \o chains_from_unpruned(g, path, i + 1, hops, package)

\* DFS from the end of path, children in insertion order, pruned at d* hops:
\* the chains through edge i and later edges of the last module
RECURSIVE chains_from(_, _, _, _, _)
chains_from(g, path, i, hops, package) ==
    LET last == path[Len(path)]
        adj == outgoing_edges(g, last)
    IN  IF Len(path) - 1 = hops
        THEN IF module(g, last).package = Some(package) THEN <<path>> ELSE <<>>
        ELSE IF i > Len(adj) THEN <<>>
        ELSE LET e == edge(g, adj[i]) IN
             (IF e.kind = "Static" /\ e.to \notin Range(path)
              THEN chains_from(g, Append(path, e.to), 1, hops, package)
              ELSE <<>>)
             \o chains_from(g, path, i + 1, hops, package)

\* query::find_all_chains: d* from the BFS, then every chain of d* hops
find_all_chains(g, entry, package) ==
    LET shortest == find_chain(g, entry, package) IN
    IF shortest = <<>> THEN <<>>
    ELSE chains_from(g, <<entry>>, 1, Len(shortest) - 1, package)

\* The graphs queried: four modules, of no package, of package q and two of
\* package p, with sizes that tell every set of them by its sum, and up to
\* MaxQueryEdges edges among QueryEdges added in any order
MaxQueryEdges == 4
QueryModules ==
    <<[path |-> "a.ts", size |-> 1, package |-> None],
      [path |-> "b.ts", size |-> 2, package |-> Some("q")],
      [path |-> "c.ts", size |-> 4, package |-> Some("p")],
      [path |-> "n.json", size |-> 8, package |-> Some("p")]>>
QueryPackages == {"p", "q"}
QueryEdges ==
    {<<0, 1, "Static">>, <<0, 1, "Dynamic">>, <<0, 2, "Static">>, <<0, 2, "TypeOnly">>,
     <<1, 2, "Static">>, <<1, 3, "Static">>, <<1, 3, "Dynamic">>, <<2, 3, "Static">>,
     <<2, 3, "TypeOnly">>, <<2, 1, "Static">>, <<3, 0, "Static">>, <<0, 3, "Static">>}

RECURSIVE with_modules(_, _)
with_modules(g, i) ==
    IF i > Len(QueryModules) THEN g
    ELSE with_modules(add_module(g, QueryModules[i].path, QueryModules[i].size,
                                 QueryModules[i].package).graph, i + 1)

InitQuery ==
    /\ graph = with_modules(ModuleGraph_new, 1)
    /\ call = NoCall
    /\ fs = [p \in Paths |-> NoFile]
    /\ cache = ParseCache_new
    /\ disk = None
    /\ recorded = [p \in Paths |-> None]
    /\ tl = TlIdle
    /\ build = BuildIdle
    /\ run = RunIdle

\* The builder adds an edge
QueryAddEdge(from, to, kind) ==
    /\ call = NoCall
    /\ Len(graph.edges) < MaxQueryEdges
    /\ graph' = add_edge(graph, from, to, kind, "s").graph
    /\ graph' # graph
    /\ UNCHANGED <<call, fs, cache, disk, recorded, tl, build, run>>

\* graph.compute_package_info() at the end of build_graph
QueryPackageInfo ==
    /\ call = NoCall
    /\ graph' = compute_package_info(graph)
    /\ call' = [op |-> "compute_package_info"]
    /\ UNCHANGED <<fs, cache, disk, recorded, tl, build, run>>

\* main: query::trace(&graph, entry_id, &opts)
QueryTrace(entry, include_dynamic) ==
    /\ call = NoCall
    /\ call' = [op |-> "trace", entry |-> entry, include_dynamic |-> include_dynamic,
                result |-> trace(graph, entry, include_dynamic)]
    /\ UNCHANGED <<graph, fs, cache, disk, recorded, tl, build, run>>

\* main: query::find_chain(&graph, entry_id, package_name)
QueryFindChain(entry, package) ==
    /\ call = NoCall
    /\ call' = [op |-> "find_chain", entry |-> entry, package |-> package,
                result |-> find_chain(graph, entry, package)]
    /\ UNCHANGED <<graph, fs, cache, disk, recorded, tl, build, run>>

\* main: query::find_all_chains(&graph, entry_id, package_name)
QueryFindAllChains(entry, package) ==
    /\ call = NoCall
    /\ call' = [op |-> "find_all_chains", entry |-> entry, package |-> package,
                result |-> find_all_chains(graph, entry, package)]
    /\ UNCHANGED <<graph, fs, cache, disk, recorded, tl, build, run>>

NextQuery ==
    \/ \E e \in QueryEdges : QueryAddEdge(e[1], e[2], e[3])
    \/ QueryPackageInfo
    \/ \E include_dynamic \in BOOLEAN : QueryTrace(0, include_dynamic)
    \/ \E package \in QueryPackages : QueryFindChain(0, package)
    \/ \E package \in QueryPackages : QueryFindAllChains(0, package)

SpecQuery == InitQuery /\ [][NextQuery]_vars

(***************************************************************************)
(* main.rs: find_project_root.  A path is the sequence of its components   *)
(* below the filesystem root; the root is the empty sequence.              *)
(***************************************************************************)
MaxDepth == 2
DirNames == {"x", "y"}
Dirs == UNION {[1..n -> DirNames] : n \in 0..MaxDepth}
EntryFiles == {Append(d, "entry.ts") : d \in Dirs}

\* Variant: two components are dropped at a time
grandparent(path) ==
    IF Len(path) < 2 THEN None ELSE Some(SubSeq(path, 1, Len(path) - 2))

\* Path::parent: None for the root
parent(path) ==
    IF path = <<>> THEN None ELSE Some(SubSeq(path, 1, Len(path) - 1))

\* dir.join("package.json").exists()
has_package_json(markers, dir) == dir \in markers

\* find_project_root is called for a canonical entry; markers are the
\* directories that hold a package.json
RootBegin(markers, entry) ==
    [op |-> "find_project_root", pc |-> "parent", markers |-> markers,
     entry |-> entry, dir |-> None, result |-> None, root |-> None, steps |-> 0]

\* let mut dir = entry.parent()?
RootParent ==
    /\ call.op = "find_project_root"
    /\ call.pc = "parent"
    /\ call' = IF parent(call.entry).some
               THEN [call EXCEPT !.pc = "loop", !.dir = parent(call.entry)]
               ELSE [call EXCEPT !.pc = "returned"]
    /\ UNCHANGED <<graph, fs, cache, disk, recorded, tl, build, run>>

\* One pass of the loop: return Some(dir) when it holds package.json, else
\* dir = dir.parent()?
RootLoop ==
    /\ call.op = "find_project_root"
    /\ call.pc = "loop"
    /\ call' = IF has_package_json(call.markers, call.dir.value)
               THEN [call EXCEPT !.pc = "returned", !.result = call.dir,
                                 !.steps = @ + 1]
               ELSE IF parent(call.dir.value).some
               THEN [call EXCEPT !.dir = parent(call.dir.value), !.steps = @ + 1]
               ELSE [call EXCEPT !.pc = "returned", !.steps = @ + 1]
    /\ UNCHANGED <<graph, fs, cache, disk, recorded, tl, build, run>>

\* main: the result, or else the parent of the entry (the entry itself when
\* it has none)
RootOrParent ==
    /\ call.op = "find_project_root"
    /\ call.pc = "returned"
    /\ call' = [call EXCEPT
                  !.pc = "done",
                  !.root = IF call.result.some THEN call.result
                           ELSE IF parent(call.entry).some THEN parent(call.entry)
                           ELSE Some(call.entry)]
    /\ UNCHANGED <<graph, fs, cache, disk, recorded, tl, build, run>>

InitRoot ==
    /\ graph = ModuleGraph_new
    /\ call \in {RootBegin(markers, entry) : markers \in SUBSET Dirs, entry \in EntryFiles}
    /\ fs = [p \in Paths |-> NoFile]
    /\ cache = ParseCache_new
    /\ disk = None
    /\ recorded = [p \in Paths |-> None]
    /\ tl = TlIdle
    /\ build = BuildIdle
    /\ run = RunIdle

NextRoot ==
    \/ RootParent
    \/ RootLoop
    \/ RootOrParent

\* The call runs on: main is not suspended forever
SpecRoot == InitRoot /\ [][NextRoot]_vars /\ WF_vars(NextRoot)

(***************************************************************************)
(* lang/python/resolver.rs: package_name_from_path.  A path is the sequence *)
(* of its components; a component is <<stem, extension>>, the extension    *)
(* being the part of the name from its last dot on.                        *)
(***************************************************************************)
MaxComponents == 3
Components ==
    {<<"lib", "">>, <<"pkg", "">>, <<"pkg", ".dist-info">>, <<"pkg", ".egg-info">>}
ModuleFile == <<"mod", ".py">>
FilePaths == {Append(d, ModuleFile) : d \in UNION {[1..n -> Components] : n \in 0..MaxComponents}}
SitePackagesDirs ==
    {<<<<"lib", "">>>>, <<<<"lib", "">>, <<"pkg", "">>>>,
     <<<<"lib", "">>, <<"pkg", ".dist-info">>>>}
SitePackagesLists ==
    {s \in UNION {[1..n -> SitePackagesDirs] : n \in 0..2} :
        \A i, j \in 1..Len(s) : i # j => s[i] # s[j]}

\* Path::strip_prefix: the rest of the path below base, or an error
strip_prefix(path, base) ==
    IF Len(base) <= Len(path) /\ SubSeq(path, 1, Len(base)) = base
    THEN Some(SubSeq(path, Len(base) + 1, Len(path)))
    ELSE None

\* str::ends_with for a suffix that starts with a dot and has no other
ends_with(name, suffix) == name[2] = suffix

\* Variant: metadata directories are returned like any other
RECURSIVE package_name_with_metadata_dirs(_, _)
package_name_with_metadata_dirs(path, site_packages) ==
    IF site_packages = <<>> THEN None
    ELSE LET relative == strip_prefix(path, Head(site_packages)) IN
         IF ~relative.some
         THEN package_name_with_metadata_dirs(path, Tail(site_packages))
         ELSE IF relative.value = <<>> THEN None
         ELSE Some(relative.value[1])

\* package_name_from_path: the loop over site_packages
RECURSIVE package_name_from_path(_, _)
package_name_from_path(path, site_packages) ==
    IF site_packages = <<>> THEN None
    ELSE LET relative == strip_prefix(path, Head(site_packages)) IN
         IF ~relative.some
         THEN package_name_from_path(path, Tail(site_packages))
         ELSE IF relative.value = <<>> THEN None
         ELSE IF \/ ends_with(relative.value[1], ".dist-info")
                 \/ ends_with(relative.value[1], ".egg-info")
         THEN package_name_from_path(path, Tail(site_packages))
         ELSE Some(relative.value[1])

InitPackageName ==
    /\ graph = ModuleGraph_new
    /\ call \in {[op |-> "package_name_from_path", path |-> path,
                  site_packages |-> sp, result |-> None, returned |-> FALSE] :
                    path \in FilePaths, sp \in SitePackagesLists}
    /\ fs = [p \in Paths |-> NoFile]
    /\ cache = ParseCache_new
    /\ disk = None
    /\ recorded = [p \in Paths |-> None]
    /\ tl = TlIdle
    /\ build = BuildIdle
    /\ run = RunIdle

PackageNameFromPath ==
    /\ call.op = "package_name_from_path"
    /\ ~call.returned
    /\ call' = [call EXCEPT
                  !.result = package_name_from_path(call.path, call.site_packages),
                  !.returned = TRUE]
    /\ UNCHANGED <<graph, fs, cache, disk, recorded, tl, build, run>>

NextPackageName == PackageNameFromPath

SpecPackageName == InitPackageName /\ [][NextPackageName]_vars

(***************************************************************************)
(* lang/python/resolver.rs: PythonResolver.  Paths are relative to the     *)
(* project root (the empty sequence); a dotted name is the sequence of its *)
(* parts.                                                                   *)
(***************************************************************************)
SrcDir == <<<<"src", "">>>>
LibDir == <<<<"lib", "">>>>
SiteA == <<<<"venv", "">>, <<"site-a", "">>>>
SiteB == <<<<"venv", "">>, <<"site-b", "">>>>
DottedNames == {<<"m">>, <<"p", "m">>}
SitePackagesOrders == {<<>>, <<SiteA>>, <<SiteA, SiteB>>, <<SiteB, SiteA>>}

\* dotted_name.replace('.', "/") joined to a base, as directory components
rel_path(dotted_name) == [i \in 1..Len(dotted_name) |-> <<dotted_name[i], "">>]

\* base.join(&rel_path).join("__init__.py")
pkg_init(base, dotted_name) ==
    base \o rel_path(dotted_name) \o <<<<"__init__", ".py">>>>

\* base.join(format!("{rel_path}.py"))
module_file(base, dotted_name) ==
    base \o SubSeq(rel_path(dotted_name), 1, Len(dotted_name) - 1)
         \o <<<<dotted_name[Len(dotted_name)], ".py">>>>

\* Variant: the module file is tried before the package
try_resolve_module_file_first(files, base, dotted_name) ==
    IF dotted_name = <<>>
    THEN IF base \o <<<<"__init__", ".py">>>> \in files
         THEN Some(base \o <<<<"__init__", ".py">>>>) ELSE None
    ELSE IF module_file(base, dotted_name) \in files
    THEN Some(module_file(base, dotted_name))
    ELSE IF pkg_init(base, dotted_name) \in files
    THEN Some(pkg_init(base, dotted_name))
    ELSE None

\* try_resolve_module; files is the set of paths that exist
try_resolve_module(files, base, dotted_name) ==
    IF dotted_name = <<>>
    THEN IF base \o <<<<"__init__", ".py">>>> \in files
         THEN Some(base \o <<<<"__init__", ".py">>>>) ELSE None
    ELSE IF pkg_init(base, dotted_name) \in files
    THEN Some(pkg_init(base, dotted_name))
    ELSE IF module_file(base, dotted_name) \in files
    THEN Some(module_file(base, dotted_name))
    ELSE None

\* The first base of the list under which the module resolves
RECURSIVE first_resolved(_, _, _)
first_resolved(files, bases, dotted_name) ==
    IF bases = <<>> THEN None
    ELSE IF try_resolve_module(files, Head(bases), dotted_name).some
    THEN try_resolve_module(files, Head(bases), dotted_name)
    ELSE first_resolved(files, Tail(bases), dotted_name)

\* PythonResolver::new: the root, then src and lib when they are directories
PythonResolver_new(dirs, site_packages) ==
    [source_roots |-> <<<<>>>> \o (IF SrcDir \in dirs THEN <<SrcDir>> ELSE <<>>)
                               \o (IF LibDir \in dirs THEN <<LibDir>> ELSE <<>>),
     site_packages_dirs |-> site_packages]

\* PythonResolver::resolve_absolute
resolve_absolute(resolver, files, specifier) ==
    IF first_resolved(files, resolver.source_roots, specifier).some
    THEN first_resolved(files, resolver.source_roots, specifier)
    ELSE first_resolved(files, resolver.site_packages_dirs, specifier)

\* The files a search for the name may look at
CandidateFiles(dotted_name) ==
    UNION {{pkg_init(base, dotted_name), module_file(base, dotted_name)} :
              base \in {<<>>, SrcDir, LibDir, SiteA, SiteB}}

\* A file under src/ or lib/ needs the directory
DirsOf(files) ==
    {d \in {SrcDir, LibDir} : \E f \in files : SubSeq(f, 1, 1) = d}

InitResolve ==
    /\ graph = ModuleGraph_new
    /\ \E specifier \in DottedNames, sp \in SitePackagesOrders :
       \E files \in SUBSET CandidateFiles(specifier) :
       \E dirs \in SUBSET {SrcDir, LibDir} :
          /\ DirsOf(files) \subseteq dirs
          /\ call = [op |-> "resolve", specifier |-> specifier, files |-> files,
                     dirs |-> dirs, site_packages |-> sp,
                     resolver |-> None, result |-> None, returned |-> FALSE]
    /\ fs = [p \in Paths |-> NoFile]
    /\ cache = ParseCache_new
    /\ disk = None
    /\ recorded = [p \in Paths |-> None]
    /\ tl = TlIdle
    /\ build = BuildIdle
    /\ run = RunIdle

ResolverNew ==
    /\ call.op = "resolve"
    /\ ~call.resolver.some
    /\ call' = [call EXCEPT
                  !.resolver = Some(PythonResolver_new(call.dirs, call.site_packages))]
    /\ UNCHANGED <<graph, fs, cache, disk, recorded, tl, build, run>>

\* resolve for a specifier that does not start with a dot
ResolveAbsolute ==
    /\ call.op = "resolve"
    /\ call.resolver.some
    /\ ~call.returned
    /\ call' = [call EXCEPT
                  !.result = resolve_absolute(call.resolver.value, call.files,
                                              call.specifier),
                  !.returned = TRUE]
    /\ UNCHANGED <<graph, fs, cache, disk, recorded, tl, build, run>>

NextResolve ==
    \/ ResolverNew
    \/ ResolveAbsolute

SpecResolve == InitResolve /\ [][NextResolve]_vars

(***************************************************************************)
(* build_graph called with a ParseCache that holds entries for some of the *)
(* files only, each made by cache.insert for the file as it is now, and    *)
(* called once more with the cache the first call has filled               *)
(***************************************************************************)
\* The files a parse_and_resolve result can be inserted for
Insertable(files) ==
    {p \in Paths : files[p].exists /\ is_parseable(p) /\ lang_parse(files, p).some}

\* cache.insert(path, &result, &resolved_paths) for every path of S
RECURSIVE WarmFor(_, _, _)
WarmFor(c, files, S) ==
    IF S = {} THEN c
    ELSE LET path == CHOOSE p \in S : TRUE
             result == lang_parse(files, path).value
         IN  WarmFor(insert(c, files, path,
                            cached_value(result,
                                         paths_of(resolve_imports(files, result.imports)))),
                     files, S \ {path})

InitWarm ==
    /\ graph = ModuleGraph_new
    /\ call = NoCall
    /\ fs \in [Paths -> {NoFile} \cup {File(c, 1) : c \in FileContents}]
    /\ fs["a.ts"].exists
    /\ fs["n.json"] = File(EmptyContent, 1)
    /\ \A p \in Paths \ {"n.json"} : fs[p].exists => p \in Reached(fs, {"a.ts"})
    /\ \E S \in SUBSET Insertable(fs) :
          cache = WarmFor(ParseCache_new, fs, S)
    /\ disk = None
    /\ recorded = [p \in Paths |-> None]
    /\ tl = TlIdle
    /\ build = BuildIdle
    /\ run = [RunIdle EXCEPT !.pc = "build", !.runs = 1, !.entry = "a.ts"]

\* build_graph has returned and is called again with the same cache
WarmBuildAgain ==
    /\ run.pc = "build"
    /\ build.pc = "done"
    /\ run.runs < MaxBuilds
    /\ run' = [run EXCEPT !.runs = @ + 1,
                          !.prev = finished(run, graph, build, disk)]
    /\ build' = BuildIdle
    /\ graph' = ModuleGraph_new
    /\ UNCHANGED <<call, fs, cache, disk, recorded, tl>>

NextWarm ==
    \/ WarmBuildAgain
    \/ BuildStart
    \/ BuildLevel
    \/ \E i \in 1..Len(build.to_parse) : ParseWorker(i)
    \/ BuildCollect
    \/ BuildFinish

SpecWarm == InitWarm /\ [][NextWarm]_vars

(***************************************************************************)
(* build_graph while another process writes the files                      *)
(***************************************************************************)
\* A file is rewritten or created while build_graph runs: after a parse and
\* before cache.insert reads the metadata, or at any other moment
EditDuringBuild(path, content) ==
    /\ run.pc = "build"
    /\ build.pc \in {"loop", "phase3"}
    /\ run.edits < MaxEdits
    /\ content # fs[path].content \/ ~fs[path].exists
    /\ fs' = [fs EXCEPT ![path] = File(content, run.clock + 1)]
    /\ run' = [run EXCEPT !.edits = @ + 1, !.dirty = TRUE, !.clock = @ + 1]
    /\ UNCHANGED <<graph, call, cache, disk, recorded, tl, build>>

NextRace ==
    \/ \E entry \in Entries : CallBuild(entry)
    \/ BuildStart
    \/ BuildLevel
    \/ \E i \in 1..Len(build.to_parse) : ParseWorker(i)
    \/ BuildCollect
    \/ BuildFinish
    \/ \E path \in Paths \ {"n.json"}, content \in EditContents : EditDuringBuild(path, content)

SpecRace == InitMain /\ [][NextRace]_vars

(***************************************************************************)
(* Every way a ModuleGraph is changed: direct add_module / add_edge calls   *)
(* on a graph of their own (no project on disk), or trace commands over a  *)
(* project                                                                 *)
(***************************************************************************)
NoProject == fs = [p \in Paths |-> NoFile]

InitAny == InitGraph \/ InitMain

NextAny ==
    \/ NoProject /\ NextGraph
    \/ ~NoProject /\ NextMain

SpecAny == InitAny /\ [][NextAny]_vars

EdgesCarrying(g, from, to, kind) ==
    {j \in 1..Len(g.edges) :
        g.edges[j].from = from /\ g.edges[j].to = to /\ g.edges[j].kind = kind}

\* C1: after any sequence of add_module and add_edge calls no (from, to, kind)
\* triple is carried by more than one edge, and the edge returned by an
\* add_edge call carries exactly the triple it was called with, so triples
\* that differ only in kind have separate edges.
C1_EdgeUnique ==
    /\ \A i, j \in 1..Len(graph.edges) :
          ( /\ graph.edges[i].from = graph.edges[j].from
            /\ graph.edges[i].to = graph.edges[j].to
            /\ graph.edges[i].kind = graph.edges[j].kind ) => i = j
    /\ call.op = "add_edge" =>
          EdgesCarrying(graph, call.from, call.to, call.kind) = {call.ret + 1}

\* Two edges between the same two modules that differ in kind, after a
\* repeated add_edge call was collapsed
C1_Witness ==
    /\ call.op = "add_edge"
    /\ call.ret + 1 < Len(graph.edges)
    /\ \E i, j \in 1..Len(graph.edges) :
          /\ graph.edges[i].from = graph.edges[j].from
          /\ graph.edges[i].to = graph.edges[j].to
          /\ graph.edges[i].kind = "Static"
          /\ graph.edges[j].kind = "Dynamic"

\* C10: add_edge called with a triple that already has an edge returns that
\* edge's id and leaves edges and adjacency lists unchanged, so the stored
\* specifier stays the one given by the first call.
C10_DuplicateEdgeIsNoOp ==
    [][ (/\ call'.op = "add_edge"
         /\ EdgesCarrying(graph, call'.from, call'.to, call'.kind) # {})
        => /\ graph'.edges = graph.edges
           /\ graph'.forward_adj = graph.forward_adj
           /\ EdgesCarrying(graph, call'.from, call'.to, call'.kind) = {call'.ret + 1}
      ]_vars

\* A duplicate add_edge call whose specifier differs from the stored one
C10_Witness ==
    /\ call.op = "add_edge"
    /\ call.ret + 1 <= Len(graph.edges)
    /\ graph.edges[call.ret + 1].specifier # call.specifier
ModulePaths(g) == {g.modules[i].path : i \in 1..Len(g.modules)}
EdgeTriples(g) ==
    {<<module(g, g.edges[j].from).path, module(g, g.edges[j].to).path, g.edges[j].kind>> :
        j \in 1..Len(g.edges)}
IncomingFrom(g, id) == {g.edges[j].from : j \in {k \in 1..Len(g.edges) : g.edges[k].to = id}}

\* The command has its graph and the files are as build_graph saw them
BuildReturned == run.pc = "build" /\ build.pc = "done"

\* C4: two build_graph runs over the same files that start from the same
\* parse cache return the same graph, module for module and edge for edge,
\* whatever order the parse workers of a level finished in.
C4_BuildDeterministic ==
    ( /\ run.prev.some
      /\ run.prev.value.how = "built"
      /\ run.how = "built"
      /\ ~run.since
      /\ run.entry = run.prev.value.entry
      /\ build.cache0 = run.prev.value.cache0 )
    => graph = run.prev.value.graph

\* Two such builds of a graph where two files were parsed in one level and
\* both add an edge to n.json, the workers finishing in a different order
C4_Witness ==
    /\ run.prev.some
    /\ run.prev.value.how = "built"
    /\ run.how = "built"
    /\ ~run.since
    /\ build.cache0 = run.prev.value.cache0
    /\ build.reordered # run.prev.value.reordered
    /\ {<<"b.ts", "n.json", "Static">>, <<"c.ts", "n.json", "Static">>}
          \subseteq EdgeTriples(graph)

\* C5: after a command that built the graph and saved the cache, the next
\* command with the same entry over unchanged files takes the tier-1 path:
\* no build, no parser call, and the graph of the previous command.
C5_SecondRunTakesTier1 ==
    ( /\ run.prev.some
      /\ run.prev.value.how = "built"
      /\ run.entry = run.prev.value.entry
      /\ ~run.since
      /\ ~run.no_cache
      /\ run.pc # "tier1" )
    => /\ run.pc \in {"query", "exit"}
       /\ run.how = "cached"
       /\ build.pc = "idle"
       /\ \A p \in Paths : build.parses[p] = 0
       /\ graph = run.prev.value.graph

\* A parse-cache entry made for the file as it is now
ValidEntry(c, files, path) ==
    /\ path \in DOMAIN c.entries
    /\ files[path].exists
    /\ files[path].mtime >= 0
    /\ c.entries[path].mtime_nanos = files[path].mtime
    /\ c.entries[path].size = files[path].size

\* The (target, kind) pairs of the imports of the file at path that resolve
ImportsNow(files, path) ==
    {<<lang_resolve(files, imp.specifier).value, imp.kind>> :
        imp \in {x \in Range(lang_parse(files, path).value.imports) :
                    lang_resolve(files, x.specifier).some}}

OutTriples(g, path) == {tr \in EdgeTriples(g) : tr[1] = path}

\* C6: when build_graph has returned, the parser was called once for every
\* parseable file in the graph whose entry in the initial cache was absent or
\* stale and not at all for any other file, and the outgoing edges of every
\* file parsed in this build are the resolved imports of its current content.
C6_ParsesExactlyStale ==
    BuildReturned =>
        \A p \in Paths :
            /\ build.parses[p] =
                  IF /\ p \in ModulePaths(graph)
                     /\ is_parseable(p)
                     /\ ~ValidEntry(build.cache0, fs, p)
                  THEN 1 ELSE 0
            /\ (build.parses[p] = 1 /\ lang_parse(fs, p).some) =>
                  OutTriples(graph, p) =
                     {<<p, x[1], x[2]>> : x \in ImportsNow(fs, p)}

\* A warm build after one file was rewritten: that file was parsed and has
\* an edge the previous graph did not have, another file was served from
\* the cache
C6_Witness ==
    /\ BuildReturned
    /\ run.since
    /\ run.prev.some
    /\ \E p, q \in ModulePaths(graph) :
          /\ build.parses[p] = 1
          /\ ValidEntry(build.cache0, fs, q)
          /\ build.parses[q] = 0
          /\ p \in DOMAIN build.cache0.entries
          /\ OutTriples(graph, p) \ EdgeTriples(run.prev.value.graph) # {}

\* C7: in one build_graph call no file is parsed twice; a file whose parse
\* failed is in parse_failures, is a module without outgoing edges and has
\* one entry in the path index, however many modules import it.
C7_ParsedAtMostOnce ==
    /\ \A p \in Paths : build.parses[p] <= 1
    /\ \A id \in build.parse_failures :
          /\ id < Len(graph.modules)
          /\ outgoing_edges(graph, id) = <<>>
          /\ Cardinality({i \in 1..Len(graph.modules) :
                             graph.modules[i].path = module(graph, id).path}) = 1
          /\ graph.path_to_id[module(graph, id).path] = id
    /\ (run.pc = "build" /\ build.pc \in {"loop", "done"}) =>
          \A p \in Paths :
             (build.parses[p] = 1 /\ ~lang_parse(fs, p).some) =>
                 /\ p \in DOMAIN graph.path_to_id
                 /\ graph.path_to_id[p] \in build.parse_failures

\* A malformed file imported by two modules, parsed once
C7_Witness ==
    /\ BuildReturned
    /\ \E id \in build.parse_failures :
          /\ Cardinality(IncomingFrom(graph, id)) >= 2
          /\ build.parses[module(graph, id).path] = 1
          /\ fs[module(graph, id).path].exists

\* C8: every build_graph call returns, and no module is pushed onto the
\* pending queue more than once, also with import cycles and self-imports.
C8_BuildTerminates ==
    /\ [](\A p \in Paths : build.pushes[p] <= 1)
    /\ (run.pc = "build" /\ build.pc # "done") ~> (build.pc = "done")

\* A finished build of a graph with a self-import and a two-module cycle,
\* every file served from the cache
C8_Witness ==
    /\ build.pc = "done"
    /\ run.runs = MaxBuilds
    /\ \A p \in Paths : build.parses[p] = 0
    /\ \E j \in 1..Len(graph.edges) : graph.edges[j].from = graph.edges[j].to
    /\ \E j, k \in 1..Len(graph.edges) :
          /\ graph.edges[j].from = graph.edges[k].to
          /\ graph.edges[j].to = graph.edges[k].from
          /\ graph.edges[j].from # graph.edges[j].to

\* The files reachable from the set S over the imports, as the files are
\* now, of the parseable files that parse
RECURSIVE Reachable(_, _)
Reachable(files, S) ==
    LET more == {x[1] : x \in UNION {ImportsNow(files, p) :
                    p \in {q \in S : is_parseable(q) /\ lang_parse(files, q).some}}}
    IN  IF more \subseteq S THEN S ELSE Reachable(files, S \cup more)

\* C9: when build_graph returns, the modules are the entry and the files
\* reachable from it over resolved imports of the parseable files that
\* parse, and the edges are one (M, T, k) for every import of such a file M
\* with kind k that resolves to T; nothing else is in the graph.
C9_GraphIsReachableClosure ==
    BuildReturned =>
        LET R == Reachable(fs, {run.entry}) IN
        /\ ModulePaths(graph) = R
        /\ EdgeTriples(graph) =
              UNION {{<<p, x[1], x[2]>> : x \in ImportsNow(fs, p)} :
                        p \in {q \in R : is_parseable(q) /\ lang_parse(fs, q).some}}
\* C11: add_module called with a path that is already in the graph returns
\* the id the path got at its first insertion and leaves modules, adjacency
\* and the path index as they are, whatever size and package it is given.
C11_AddModuleIdempotent ==
    [][ (call'.op = "add_module" /\ call'.path \in DOMAIN graph.path_to_id)
        => /\ call'.ret = graph.path_to_id[call'.path]
           /\ graph'.modules = graph.modules
           /\ graph'.forward_adj = graph.forward_adj
           /\ graph'.path_to_id = graph.path_to_id
      ]_vars

\* A repeated add_module call whose size and package differ from the stored
\* ones, on a module that has an outgoing edge
C11_Witness ==
    /\ call.op = "add_module"
    /\ call.ret + 1 < Len(graph.modules)
    /\ module(graph, call.ret).size_bytes # call.size_bytes
    /\ module(graph, call.ret).package # call.package
    /\ outgoing_edges(graph, call.ret) # <<>>

IsPrefix(s, t) == Len(s) <= Len(t) /\ SubSeq(t, 1, Len(s)) = s

\* C12: across every add_module / add_edge step and every step of one
\* build_graph call, the modules and edges that exist stay as they are (id,
\* path, size, package, endpoints, kind, specifier) and neither count
\* decreases: both vectors only grow at the end.
C12_AppendOnly ==
    [][ run'.runs = run.runs
        => /\ IsPrefix(graph.modules, graph'.modules)
           /\ IsPrefix(graph.edges, graph'.edges)
      ]_vars

\* A build that has added modules and edges in two passes of its loop
C12_Witness ==
    /\ build.pc = "done"
    /\ Len(graph.modules) >= 4
    /\ Len(graph.edges) >= 4
    /\ \E j \in 1..Len(graph.edges) : graph.edges[j].from # 0
\* C13: ParseCache::load returns the empty cache (no parse entry, no
\* snapshot) when the cache file is missing, cannot be deserialized or has a
\* version other than CACHE_VERSION, and the whole content of the file
\* otherwise; it never returns part of a file.
C13_LoadNeverFails ==
    call.op = "load" =>
        IF \/ ~call.file.some
           \/ ~call.file.value.valid
           \/ call.file.value.version # CACHE_VERSION
        THEN cache = ParseCache_new
        ELSE /\ DOMAIN cache.entries =
                   {call.file.value.parse_entries[i].path :
                       i \in 1..Len(call.file.value.parse_entries)}
             /\ cache.cached_graph.some = call.file.value.graph_cache.some

\* A file of an older version that holds a parse entry was loaded
C13_Witness ==
    /\ call.op = "load"
    /\ call.file.some
    /\ call.file.value.valid
    /\ call.file.value.version # CACHE_VERSION
    /\ call.file.value.parse_entries # <<>>
    /\ cache = ParseCache_new

\* C14: on a cache loaded from a completed save, with no file changed in
\* between, lookup answers as the saved cache answered, and
\* try_load_graph(entry, never resolves) returns the saved graph with the
\* saved unresolvable-dynamic count.
C14_SaveLoadRoundTrip ==
    run.loaded =>
        /\ call.op = "lookup" =>
              call.ret = lookup(run.saved.value.cache, fs, call.path)
        /\ (call.op = "try_load_graph" /\ call.entry = run.saved.value.entry) =>
              call.ret = Some([graph |-> run.saved.value.graph,
                               unresolvable_dynamic |->
                                   run.saved.value.unresolvable_dynamic])

\* A snapshot of two modules came back from a file whose parse map was
\* written with b.ts before a.ts
C14_Witness ==
    /\ run.loaded
    /\ call.op = "try_load_graph"
    /\ call.ret.some
    /\ Len(call.ret.value.graph.modules) = 2
    /\ call.ret.value.unresolvable_dynamic > 0
    /\ Len(run.new.parse_entries) = 2
    /\ run.new.parse_entries[1].path = "b.ts"
    /\ lookup(cache, fs, "a.ts").some

\* C15: once save has been called, the cache file is at every moment the
\* complete file from before the call or the complete new envelope; what a
\* load at that moment reads is one of the two.
C15_SaveIsAtomic ==
    run.saves > 0 =>
        /\ disk = run.old \/ disk = Some(run.new)
        /\ call.op = "load" => (call.file = run.old \/ call.file = Some(run.new))
\* C16: two commands that build over the same files from the same parse
\* cache leave byte-identical cache files: the parse map, the mtime map and
\* the unresolved-specifier list are written in the same order.
C16_SameBytes ==
    ( /\ run.prev.some
      /\ run.prev.value.how = "built"
      /\ run.how = "built"
      /\ ~run.since
      /\ run.entry = run.prev.value.entry
      /\ build.cache0 = run.prev.value.cache0 )
    => disk = run.prev.value.disk
\* C17: when a specifier of an unchanged file F was unresolved in the
\* previous command and a file created since makes it resolve, the next
\* cache-first command rejects the snapshot, builds, and its graph has the
\* edge from F to the module the specifier now resolves to.
C17_NewlyResolvableGetsEdge ==
    ( /\ run.pc = "query"
      /\ ~run.no_cache
      /\ run.since
      /\ run.prev.some
      /\ run.prev.value.how = "built" )
    => LET before == deserialize(run.prev.value.disk.value).value
           was_unresolved == Range(before.graph_cache.value.unresolved_specifiers)
       IN  \A F \in ModulePaths(run.prev.value.graph) :
              ( /\ ValidEntry([entries |-> before.parse_entries], fs, F)
                /\ lang_parse(fs, F).some )
              => \A imp \in Range(lang_parse(fs, F).value.imports) :
                    ( /\ imp.specifier \in was_unresolved
                      /\ lang_resolve(fs, imp.specifier).some )
                    => /\ run.how = "built"
                       /\ <<F, lang_resolve(fs, imp.specifier).value, imp.kind>>
                             \in EdgeTriples(graph)
\* The imports build_graph has processed, each with its source module and the
\* resolution it was processed with: for every parseable module of the graph
\* that has a parse result, the imports zipped with their resolved paths, as
\* the cache holds them after the build
ProcessedImports(c, files, g) ==
    UNION {{[source |-> F, imp |-> ri.imp, path |-> ri.path] :
               ri \in Range(zip_imports(lookup(c, files, F).value.result.imports,
                                        lookup(c, files, F).value.resolved_paths))} :
           F \in {p \in ModulePaths(g) : is_parseable(p) /\ lookup(c, files, p).some}}

\* C18: when build_graph has returned, the unresolved specifiers are exactly
\* the specifiers of the processed imports whose resolution was none; such an
\* import has added no module and no edge (every edge and every module but
\* the entry comes from an import that resolved), and every import that
\* resolved has its edge, whatever came before it in the same file.  A build
\* from an empty cache processes every import with its resolution on the
\* current files.
C18_UnresolvedIsRecordedOnly ==
    BuildReturned =>
        LET P == ProcessedImports(cache, fs, graph)
            none == {x \in P : ~x.path.some}
            some == {x \in P : x.path.some}
        IN  /\ Range(build.unresolved_specifiers) = {x.imp.specifier : x \in none}
            /\ Len(build.unresolved_specifiers) = Cardinality({x.imp.specifier : x \in none})
            /\ EdgeTriples(graph) = {<<x.source, x.path.value, x.imp.kind>> : x \in some}
            /\ ModulePaths(graph) = {build.entry} \cup {x.path.value : x \in some}
            /\ build.cache0 = ParseCache_new =>
                  \A x \in P : x.path = lang_resolve(fs, x.imp.specifier)

\* A build has returned in which a file's first import did not resolve and
\* its second did: the specifier of the first is recorded and the edge of the
\* second is in the graph
C18_Witness ==
    /\ BuildReturned
    /\ \E F \in ModulePaths(graph) :
          /\ lookup(cache, fs, F).some
          /\ LET v == lookup(cache, fs, F).value IN
                /\ Len(v.result.imports) = 2
                /\ ~v.resolved_paths[1].some
                /\ v.resolved_paths[2].some
                /\ v.result.imports[1].specifier \in Range(build.unresolved_specifiers)
                /\ <<F, v.resolved_paths[2].value, v.result.imports[2].kind>>
                      \in EdgeTriples(graph)
\* The ids at most d edges away from the entry module, and the BFS depth
RECURSIVE Within(_, _)
Within(g, d) ==
    IF d = 0 THEN {0}
    ELSE LET near == Within(g, d - 1) IN
         near \cup {g.edges[i].to : i \in {j \in 1..Len(g.edges) : g.edges[j].from \in near}}

HasDepth(g, id) == id \in Within(g, Len(g.modules))
Depth(g, id) ==
    CHOOSE d \in 0..Len(g.modules) :
        /\ id \in Within(g, d)
        /\ d = 0 \/ id \notin Within(g, d - 1)

\* The position in g.edges of the first edge into the module: edges are
\* pushed in the order the imports are scanned, so this is when the
\* coordinator met the path
FirstMet(g, id) ==
    CHOOSE i \in 1..Len(g.edges) :
        /\ g.edges[i].to = id
        /\ \A j \in 1..(i - 1) : g.edges[j].to # id

\* C19: in the graph build_graph returns the entry has id 0, every module is
\* reachable from it, a module of smaller BFS depth has the smaller id, and
\* among the other modules ids are given in the order the paths were first
\* met by the scan of the imports.
C19_IdsFollowBfsOrder ==
    BuildReturned =>
        LET ids == 0..(Len(graph.modules) - 1) IN
        /\ module(graph, 0).path = build.entry
        /\ \A m \in ids : module(graph, m).id = m /\ HasDepth(graph, m)
        /\ \A m1, m2 \in ids :
              Depth(graph, m1) < Depth(graph, m2) => m1 < m2
        /\ \A m1, m2 \in ids \ {0} :
              m1 < m2 <=> FirstMet(graph, m1) < FirstMet(graph, m2)

\* A build has returned a graph with modules at depths 0, 1 and 2 and two
\* modules at the same depth
C19_Witness ==
    /\ BuildReturned
    /\ \E m1, m2, m3 \in 0..(Len(graph.modules) - 1) :
          /\ Depth(graph, m1) = 1
          /\ Depth(graph, m2) = 1
          /\ m1 # m2
          /\ Depth(graph, m3) = 2
\* C20: in concurrent_discover, under fair scheduling, every worker
\* eventually exits, and from any state in which the queue is empty and the
\* active counter is zero every worker exits: none spins forever.
C20_WorkersExit ==
    /\ <>AllExited
    /\ (Discovering /\ call.queue = <<>> /\ call.active = 0) ~> AllExited

\* Every worker has exited after a walk over a project with an import cycle
\* and a file whose parse failed, which left two results
C20_Witness ==
    /\ AllExited
    /\ \E p \in call.seen : ~lang_parse(fs, p).some
    /\ \E p \in call.seen \ {"a.ts"} :
          /\ lang_parse(fs, p).some
          /\ \E imp \in Range(lang_parse(fs, p).value.imports) :
                lang_resolve(fs, imp.specifier) = Some("a.ts")
    /\ Len(call.results) = 2
\* The FileResult of a file as the files on disk give it
FileResultOf(files, path) ==
    [path |-> path,
     size |-> size_or_zero(files, path),
     package |-> package_name(path),
     imports |-> resolve_imports(files, lang_parse(files, path).value.imports),
     unresolvable_dynamic |-> lang_parse(files, path).value.unresolvable_dynamic]

\* The source files a walk from the entry reaches that parse, in path order
RECURSIVE InPathOrder(_, _)
InPathOrder(S, rank) ==
    IF rank > 4 THEN <<>>
    ELSE (IF \E p \in S : PathRank(p) = rank
          THEN <<CHOOSE p \in S : PathRank(p) = rank>> ELSE <<>>)
         \o InPathOrder(S, rank + 1)

Discoverable(files, entry) ==
    {p \in Reached(files, {entry}) : is_parseable(p) /\ lang_parse(files, p).some}

\* C21: whatever the interleaving of the workers, concurrent_discover
\* returns one vector determined by the files alone: the FileResults of the
\* parsed files, in path order.
C21_ResultIsDeterministic ==
    call.op = "discovered" =>
        LET order == InPathOrder(Discoverable(fs, "a.ts"), 1) IN
        call.results = [i \in 1..Len(order) |-> FileResultOf(fs, order[i])]

\* concurrent_discover has returned three results that the workers had
\* pushed in another order
C21_Witness ==
    /\ call.op = "discovered"
    /\ Len(call.results) = 3
    /\ call.pushed # call.results
\* The specifiers of a declaration that are not named specifiers marked
\* type-only
ValueSpecifiers(decl) ==
    {i \in 1..Len(decl.specifiers) :
        decl.specifiers[i].s # "Named" \/ ~decl.specifiers[i].is_type_only}

\* C22: the import extracted from an import declaration or an
\* `export { ... } from` declaration is TypeOnly if and only if the declaration
\* is marked type-only, or it has at least one specifier and each is a named
\* specifier marked type-only; otherwise it is Static.  For `export * from`
\* it is TypeOnly iff the declaration is type-only.
C22_TypeOnlyRule ==
    (call.op = "parse_file" /\ call.result.some /\ call.decls # <<>>) =>
        LET decl == call.decls[1].decl
            imports == call.result.value.imports
            sourced == \/ decl.n \in {"ModuleDecl::Import", "ModuleDecl::ExportAll"}
                       \/ decl.n = "ModuleDecl::ExportNamed" /\ decl.src.some
            type_only ==
                IF decl.n = "ModuleDecl::ExportAll" THEN decl.type_only
                ELSE \/ decl.type_only
                     \/ Len(decl.specifiers) > 0 /\ ValueSpecifiers(decl) = {}
        IN  sourced =>
               /\ Len(imports) >= 1
               /\ imports[1].specifier = "M"
               /\ imports[1].kind = IF type_only THEN "TypeOnly" ELSE "Static"

\* Parsed: `import { type A, type B } from "M"`, not marked type-only as a
\* whole, gave a TypeOnly import
C22_Witness ==
    /\ call.op = "parse_file"
    /\ call.result.some
    /\ call.decls # <<>>
    /\ call.decls[1].decl.n = "ModuleDecl::Import"
    /\ ~call.decls[1].decl.type_only
    /\ Len(call.decls[1].decl.specifiers) = 2
    /\ call.result.value.imports[1].kind = "TypeOnly"
\* Every child node of a syntax-tree node, in source order
Opt(o) == IF o.some THEN <<o.value>> ELSE <<>>
RECURSIVE CaseKids(_, _), PropKids(_, _), ElemKids(_, _), InitKids(_, _)
CaseKids(cases, i) ==
    IF i > Len(cases) THEN <<>>
    ELSE Opt(cases[i].test) \o cases[i].cons \o CaseKids(cases, i + 1)
PropKids(props, i) ==
    IF i > Len(props) THEN <<>>
    ELSE (CASE props[i].p = "KeyValue" -> <<props[i].value>>
            [] props[i].p = "Spread" -> <<props[i].expr>>
            [] OTHER -> <<>>) \o PropKids(props, i + 1)
ElemKids(elems, i) ==
    IF i > Len(elems) THEN <<>> ELSE Opt(elems[i]) \o ElemKids(elems, i + 1)
InitKids(decls, i) ==
    IF i > Len(decls) THEN <<>> ELSE Opt(decls[i].init) \o InitKids(decls, i + 1)
Kids(node) ==
    CASE node.n = "Expr::Call" ->
            (IF node.callee.c = "Expr" THEN <<node.callee.expr>> ELSE <<>>) \o node.args
      [] node.n = "Expr::Member" ->
            <<node.obj>> \o (IF node.prop.computed THEN <<node.prop.expr>> ELSE <<>>)
      [] node.n \in {"Expr::Bin", "Expr::Assign"} -> <<node.left, node.right>>
      [] node.n \in {"Expr::Tpl", "Expr::Seq"} -> node.exprs
      [] node.n = "Expr::Arrow" ->
            IF node.body.b = "Expr" THEN <<node.body.expr>> ELSE node.body.stmts
      [] node.n = "Expr::Fn" -> IF node.body.some THEN node.body.value ELSE <<>>
      [] node.n \in {"Expr::Paren", "Stmt::Expr"} -> <<node.expr>>
      [] node.n \in {"Expr::Await", "Expr::Unary"} -> <<node.arg>>
      [] node.n = "Expr::Cond" -> <<node.test, node.cons, node.alt>>
      [] node.n = "Expr::Array" -> ElemKids(node.elems, 1)
      [] node.n = "Expr::Object" -> PropKids(node.props, 1)
      [] node.n = "Stmt::Return" -> Opt(node.arg)
      [] node.n = "Stmt::Switch" -> <<node.discriminant>> \o CaseKids(node.cases, 1)
      [] node.n = "Stmt::If" -> <<node.test, node.cons>> \o Opt(node.alt)
      [] node.n = "Stmt::While" -> <<node.test, node.body>>
      [] node.n = "Stmt::DoWhile" -> <<node.body, node.test>>
      [] node.n = "Stmt::For" ->
            Opt(node.init) \o Opt(node.test) \o Opt(node.update) \o <<node.body>>
      [] node.n \in {"Stmt::ForIn", "Stmt::ForOf"} -> <<node.right, node.body>>
      [] node.n = "Stmt::Labeled" -> <<node.body>>
      [] node.n = "Stmt::Block" -> node.stmts
      [] node.n = "Stmt::Try" ->
            node.block \o (IF node.handler.some THEN node.handler.value ELSE <<>>)
                       \o (IF node.finalizer.some THEN node.finalizer.value ELSE <<>>)
      [] node.n = "Stmt::Decl" ->
            IF node.decl.n = "Decl::Var" THEN InitKids(node.decl.decls, 1)
            ELSE IF node.decl.body.some THEN node.decl.body.value ELSE <<>>
      [] OTHER -> <<>>

\* A call of import or of the bare identifier require; with a string literal
\* as its first argument it is an import, else an unresolvable one
ImportOrRequire(node) ==
    /\ node.n = "Expr::Call"
    /\ \/ node.callee.c = "Import"
       \/ /\ node.callee.c = "Expr"
          /\ node.callee.expr = Ident("require")
LiteralArg(node) ==
    /\ Len(node.args) >= 1
    /\ node.args[1].n = "Expr::Lit"
    /\ node.args[1].lit = "Str"

\* The imports of all the import(literal) and require(literal) calls in a
\* tree, in source order, and the number of its import(non-literal) and
\* require(non-literal) calls
RECURSIVE ImportCalls(_), ImportCallsOf(_, _), NonLiteralCalls(_), NonLiteralCallsOf(_, _)
ImportCallsOf(kids, i) ==
    IF i > Len(kids) THEN <<>> ELSE ImportCalls(kids[i]) \o ImportCallsOf(kids, i + 1)
ImportCalls(node) ==
    (IF ImportOrRequire(node) /\ LiteralArg(node)
     THEN <<[specifier |-> node.args[1].value,
             kind |-> IF node.callee.c = "Import" THEN "Dynamic" ELSE "Static"]>>
     ELSE <<>>) \o ImportCallsOf(Kids(node), 1)
NonLiteralCallsOf(kids, i) ==
    IF i > Len(kids) THEN 0 ELSE NonLiteralCalls(kids[i]) + NonLiteralCallsOf(kids, i + 1)
NonLiteralCalls(node) ==
    (IF ImportOrRequire(node) /\ ~LiteralArg(node) THEN 1 ELSE 0)
    + NonLiteralCallsOf(Kids(node), 1)

\* a is b with some elements left out
RECURSIVE IsSubsequence(_, _)
IsSubsequence(a, b) ==
    IF a = <<>> THEN TRUE
    ELSE IF b = <<>> THEN FALSE
    ELSE IF Head(a) = Head(b) THEN IsSubsequence(Tail(a), Tail(b))
    ELSE IsSubsequence(a, Tail(b))

ParsedStmt == call.op = "parse_file" /\ call.result.some /\ call.stmt.some /\ call.decls = <<>>

\* C23: the extractor yields an import for a call only when the callee is
\* import or the bare identifier require and the first argument is a string
\* literal: the imports of a statement are among those of its import(literal)
\* and require(literal) calls, in their order, and a single call as a
\* statement yields an import exactly when it is such a call.
C23_OnlyLiteralImportOrRequire ==
    ParsedStmt =>
        /\ IsSubsequence(call.result.value.imports, ImportCalls(call.stmt.value))
        /\ (call.nesting = 0 /\ call.stmt.value.n = "Stmt::Expr") =>
              call.result.value.imports = ImportCalls(call.stmt.value)

\* Parsed: the statement `require.resolve("X")`, which gave no import
C23_Witness ==
    /\ ParsedStmt
    /\ call.stmt.value =
          ExprStmt(Call(CalleeExpr(Member(Ident("require"), Name("resolve"))), <<Str("X")>>))
    /\ call.result.value.imports = <<>>
\* C24: the count of unresolvable dynamic imports the extractor reports for
\* a file equals the number of import() and require() calls in it whose
\* argument is not a string literal.
C24_CountsEveryNonLiteral ==
    ParsedStmt =>
        call.result.value.unresolvable_dynamic = NonLiteralCalls(call.stmt.value)

\* C25: each import("X") and require("X") with a literal argument nested
\* anywhere in a statement yields exactly one import, and the imports come
\* out in source order.
C25_EveryNestedImportFound ==
    ParsedStmt => call.result.value.imports = ImportCalls(call.stmt.value)
\* The modules reachable from the set S over the edges of the given kinds
RECURSIVE KindReach(_, _, _)
KindReach(g, S, kinds) ==
    LET more == {g.edges[j].to : j \in {k \in 1..Len(g.edges) :
                    g.edges[k].from \in S /\ g.edges[k].kind \in kinds}}
    IN  IF more \subseteq S THEN S ELSE KindReach(g, S \cup more, kinds)

HasEdge(g, from, to, kind) ==
    \E j \in 1..Len(g.edges) :
        g.edges[j].from = from /\ g.edges[j].to = to /\ g.edges[j].kind = kind

C27_DynamicOnlyBucket ==
    call.op = "trace" =>
        LET static == KindReach(graph, {call.entry}, {"Static"})
            all == KindReach(graph, {call.entry}, {"Static", "Dynamic"})
        IN  IF call.include_dynamic
            THEN /\ call.result.dynamic_only_weight = 0
                 /\ call.result.dynamic_only_module_count = 0
                 /\ call.result.static_weight = SumSizes(graph, all)
            ELSE /\ call.result.dynamic_only_weight = SumSizes(graph, all \ static)
                 /\ call.result.dynamic_only_module_count = Cardinality(all \ static)
                 /\ call.result.static_weight = SumSizes(graph, static)

\* Traced with include_dynamic off: module 1 is reached over a Static and a
\* Dynamic edge and counts as static, module 3 is behind a Dynamic edge only
C27_Witness ==
    /\ call.op = "trace"
    /\ ~call.include_dynamic
    /\ HasEdge(graph, 0, 1, "Static")
    /\ HasEdge(graph, 0, 1, "Dynamic")
    /\ HasEdge(graph, 1, 3, "Dynamic")
    /\ call.result.static_weight = 3
    /\ call.result.dynamic_only_weight = 8
    /\ call.result.dynamic_only_module_count = 1

\* The simple paths over Static edges from the entry to a module of the
\* package
StaticPathsTo(g, entry, package) ==
    {s \in UNION {[1..m -> 0..(Len(g.modules) - 1)] : m \in 1..Len(g.modules)} :
        /\ s[1] = entry
        /\ module(g, s[Len(s)]).package = Some(package)
        /\ \A i, j \in 1..Len(s) : i # j => s[i] # s[j]
        /\ \A i \in 1..(Len(s) - 1) : HasEdge(g, s[i], s[i + 1], "Static")}

\* C28: find_chain(E, P) is a path over Static edges from E to a module of
\* package P with the fewest edges of all such paths, and it is empty exactly
\* when there is no such path.
C28_ChainIsShortest ==
    call.op = "find_chain" =>
        LET paths == StaticPathsTo(graph, call.entry, call.package) IN
        IF paths = {} THEN call.result = <<>>
        ELSE /\ call.result \in paths
             /\ \A s \in paths : Len(call.result) <= Len(s)

\* Found: a chain of one hop to package p although an edge added earlier
\* starts a longer way
C28_Witness ==
    /\ call.op = "find_chain"
    /\ call.package = "p"
    /\ Len(call.result) = 2
    /\ <<0, 1, 3>> \in StaticPathsTo(graph, 0, "p")
    /\ graph.edges[1].to = 1

\* The position in g.edges of the Static edge between two modules: edge ids
\* rise in insertion order
StaticEdgeAt(g, from, to) ==
    CHOOSE j \in 1..Len(g.edges) :
        g.edges[j].from = from /\ g.edges[j].to = to /\ g.edges[j].kind = "Static"

\* Chain s comes before chain u when children are visited in insertion order
VisitedBefore(g, s, u) ==
    \E k \in 2..Len(s) :
        /\ \A i \in 1..(k - 1) : s[i] = u[i]
        /\ s[k] # u[k]
        /\ StaticEdgeAt(g, s[k - 1], s[k]) < StaticEdgeAt(g, s[k - 1], u[k])

\* C29: find_all_chains(E, P) lists every simple path from E to a module of
\* package P that has the minimum hop count, each once and nothing else, in
\* the order of a visit of the children in adjacency insertion order.
C29_AllShortestChains ==
    call.op = "find_all_chains" =>
        LET paths == StaticPathsTo(graph, call.entry, call.package)
            shortest == {s \in paths : \A u \in paths : Len(s) <= Len(u)}
            chains == call.result
        IN  /\ Range(chains) = shortest
            /\ Len(chains) = Cardinality(shortest)
            /\ \A i, j \in 1..Len(chains) :
                  i < j => VisitedBefore(graph, chains[i], chains[j])

\* Found: two chains of two hops to package p (the entry imports 1 and 2,
\* and both import 3) while a longer path exists as well
C29_Witness ==
    /\ call.op = "find_all_chains"
    /\ call.package = "p"
    /\ Len(call.result) = 2
    /\ \A i \in 1..2 : Len(call.result[i]) = 3
    /\ Cardinality(StaticPathsTo(graph, 0, "p")) > 2

PackageMembers(g, name) ==
    {id \in 0..(Len(g.modules) - 1) : module(g, id).package = Some(name)}

\* C30: after compute_package_info every package of the graph has an entry
\* whose file count and size are those of the modules of that package, each
\* counted once, and of no module of another package.
C30_PackageTotals ==
    call.op = "compute_package_info" =>
        /\ DOMAIN graph.package_map = QueryPackages
        /\ \A name \in QueryPackages :
              /\ graph.package_map[name].total_reachable_files =
                    Cardinality(PackageMembers(graph, name))
              /\ graph.package_map[name].total_reachable_size =
                    SumSizes(graph, PackageMembers(graph, name))

\* Computed: package p holds modules 2 and 3, and a Static edge leaves it
\* for a module of package q
C30_Witness ==
    /\ call.op = "compute_package_info"
    /\ HasEdge(graph, 2, 3, "Static")
    /\ HasEdge(graph, 2, 1, "Static")
    /\ graph.package_map["p"].total_reachable_size = 12
    /\ graph.package_map["p"].total_reachable_files = 2
    /\ graph.package_map["q"].total_reachable_size = 2
\* C31: with --no-cache the command does not read the cache (no tier-1
\* attempt, no entry of the cache file in the build) and still builds and
\* saves; a build is followed by one save that replaces the snapshot by
\* that of the built graph; a tier-1 hit builds nothing and saves nothing.
C31_NoCacheAndSaves ==
    /\ run.no_cache =>
          /\ run.pc # "tier1"
          /\ run.how # "cached"
          /\ run.pc = "query" => run.how = "built"
          /\ build.pc # "idle" => build.cache0 = ParseCache_new
    /\ run.saves = IF run.how = "built" THEN 1 ELSE 0
    /\ (run.pc \in {"query", "exit"} /\ build.pc # "idle") => run.how = "built"
    /\ run.how = "built" =>
          /\ load(disk).cached_graph.some
          /\ load(disk).cached_graph.value.entry = run.entry
          /\ load(disk).cached_graph.value.graph = graph
    /\ run.how = "cached" =>
          /\ build = BuildIdle
          /\ run.prev.some
          /\ disk = run.prev.value.disk

\* A --no-cache command after a build that saved: it has built again and
\* has replaced the snapshot by a different one
C31_Witness ==
    /\ run.no_cache
    /\ run.pc = "exit"
    /\ run.how = "built"
    /\ run.saves = 1
    /\ run.prev.some
    /\ run.prev.value.how = "built"
    /\ ~run.since
    /\ load(run.prev.value.disk).cached_graph.some
    /\ disk # run.prev.value.disk
\* The command has ended and no file has changed since it started
Exited == run.pc = "exit" /\ ~run.dirty

EntryMissing == ~fs[run.entry].exists \/ run.entry \notin DOMAIN graph.path_to_id
DiffMissing ==
    /\ call.op = "exit"
    /\ call.diff.some
    /\ ~fs[call.diff.value].exists \/ call.diff.value \notin DOMAIN graph.path_to_id
QueriesRun == IF call.op = "exit" THEN call.queries ELSE 0
Reported == call.op = "exit" /\ call.reported

MarkedAncestors(markers, entry) ==
    {n \in 0..(Len(entry) - 1) : SubSeq(entry, 1, n) \in markers}

\* C33: the project root is the nearest directory above the entry, from its
\* parent upwards, that holds package.json, or the parent of the entry when
\* there is none up to the filesystem root; and the upward walk ends.
C33_NearestMarkedAncestor ==
    /\ [](call.pc = "done" =>
            LET marked == MarkedAncestors(call.markers, call.entry)
                nearest == CHOOSE n \in marked : \A m \in marked : m <= n
            IN  call.root = Some(SubSeq(call.entry, 1,
                                        IF marked = {} THEN Len(call.entry) - 1
                                        ELSE nearest)))
    /\ <>(call.pc = "done")

\* Found: the root is x/, two levels above the entry in x/y/, although the
\* filesystem root and a directory beside the way hold a package.json as well
C33_Witness ==
    /\ call.op = "find_project_root"
    /\ call.pc = "done"
    /\ call.entry = <<"x", "y", "entry.ts">>
    /\ call.markers = {<<>>, <<"x">>, <<"y">>}
    /\ call.root = Some(<<"x">>)
    /\ call.steps = 2
\* The positions in site_packages of the directories the path lies under
Containing(path, site_packages) ==
    {i \in 1..Len(site_packages) :
        /\ Len(site_packages[i]) < Len(path)
        /\ \A k \in 1..Len(site_packages[i]) : path[k] = site_packages[i][k]}

\* The component of the path right below the directory at position i
TopBelow(path, site_packages, i) == path[Len(site_packages[i]) + 1]

IsMetadataDir(name) == name[2] \in {".dist-info", ".egg-info"}

\* C34: package_name_from_path returns the first component of the path
\* below the site-packages directory that contains it (the first such
\* directory of the list whose component is not a metadata directory),
\* none for a path under no site-packages directory, and never a name that
\* ends in .dist-info or .egg-info.
C34_PackageNameFromPath ==
    (call.op = "package_name_from_path" /\ call.returned) =>
        LET under == Containing(call.path, call.site_packages)
            named == {i \in under :
                        ~IsMetadataDir(TopBelow(call.path, call.site_packages, i))}
        IN  /\ under = {} => call.result = None
            /\ call.result.some => ~IsMetadataDir(call.result.value)
            /\ named # {} =>
                  call.result =
                      Some(TopBelow(call.path, call.site_packages,
                                    CHOOSE i \in named : \A j \in named : i <= j))
            /\ named = {} => call.result = None

\* Named: lib/pkg.dist-info/pkg/mod.py is skipped under lib/, where its
\* first component is a metadata directory, and is of package pkg under
\* the second directory of the list
C34_Witness ==
    /\ call.op = "package_name_from_path"
    /\ call.returned
    /\ call.site_packages = <<<<<<"lib", "">>>>, <<<<"lib", "">>, <<"pkg", ".dist-info">>>>>>
    /\ call.path = <<<<"lib", "">>, <<"pkg", ".dist-info">>, <<"pkg", "">>, ModuleFile>>
    /\ call.result = Some(<<"pkg", "">>)
\* The candidates of a specifier in their fixed order: root, src, lib, then
\* the site-packages directories; under each the package before the module
RECURSIVE CandidatesIn(_, _)
CandidatesIn(bases, dotted_name) ==
    IF bases = <<>> THEN <<>>
    ELSE <<pkg_init(Head(bases), dotted_name), module_file(Head(bases), dotted_name)>>
         \o CandidatesIn(Tail(bases), dotted_name)

\* C35: resolving a non-relative specifier gives the first candidate that
\* exists, the candidates being ordered root, src, lib, site-packages
\* directories, and __init__.py of the package before the .py module under
\* each; it gives none exactly when no candidate exists.
C35_FirstExistingCandidate ==
    (call.op = "resolve" /\ call.returned) =>
        LET candidates == CandidatesIn(<<<<>>, SrcDir, LibDir>> \o call.site_packages,
                                       call.specifier)
            existing == {i \in 1..Len(candidates) : candidates[i] \in call.files}
        IN  IF existing = {} THEN call.result = None
            ELSE call.result =
                    Some(candidates[CHOOSE i \in existing : \A j \in existing : i <= j])

\* Resolved: p.m is src/p/m/__init__.py although src/p/m.py, the package
\* under lib/ and the module in both site-packages directories exist too
C35_Witness ==
    /\ call.op = "resolve"
    /\ call.returned
    /\ call.specifier = <<"p", "m">>
    /\ call.site_packages = <<SiteB, SiteA>>
    /\ call.files = {pkg_init(SrcDir, <<"p", "m">>), module_file(SrcDir, <<"p", "m">>),
                     pkg_init(LibDir, <<"p", "m">>), module_file(SiteA, <<"p", "m">>),
                     module_file(SiteB, <<"p", "m">>)}
    /\ call.result = Some(pkg_init(SrcDir, <<"p", "m">>))
\* Every entry of the cache is the parse and the resolution of the file as
\* it is now
AllEntriesCurrent(c, files) ==
    \A p \in DOMAIN c.entries :
        /\ ValidEntry(c, files, p)
        /\ lang_parse(files, p).some
        /\ c.entries[p].result =
              cached_value(lang_parse(files, p).value,
                           paths_of(resolve_imports(files, lang_parse(files, p).value.imports)))

\* C36: over the same files build_graph returns the same graph, with the
\* same module ids, edge ids and edge order, from an empty, a partly warm
\* and a fully warm parse cache whose entries are all valid for the files.
C36_SameGraphWhateverCache ==
    ( /\ BuildReturned
      /\ run.prev.some
      /\ AllEntriesCurrent(run.prev.value.cache0, fs)
      /\ AllEntriesCurrent(build.cache0, fs) )
    => graph = run.prev.value.graph
\* C37: also when a file is modified during a build, between its parse and
\* the metadata read of cache.insert, a lookup hit for the file returns a
\* result that was parsed from the content the file has at the recorded
\* modification time and size.
C37_HitIsParsedFromRecordedContent ==
    \A p \in Paths :
        lookup(cache, fs, p).some =>
            /\ lang_parse(fs, p).some
            /\ lookup(cache, fs, p).value.result = lang_parse(fs, p).value
\* C38: in every graph the program reaches, module and edge ids are the
\* positions, there is one adjacency list per module, the path index has
\* one entry per module and maps its path to its id, the endpoints of every
\* edge are modules, and the adjacency list of a module holds the ids of
\* the edges that leave it, each once, in increasing order.
C38_GraphWellFormed ==
    LET ids == 0..(Len(graph.modules) - 1) IN
    /\ \A id \in ids : module(graph, id).id = id
    /\ \A j \in 0..(Len(graph.edges) - 1) : edge(graph, j).id = j
    /\ Len(graph.forward_adj) = Len(graph.modules)
    /\ DOMAIN graph.path_to_id = {module(graph, id).path : id \in ids}
    /\ Cardinality(DOMAIN graph.path_to_id) = Len(graph.modules)
    /\ \A id \in ids : graph.path_to_id[module(graph, id).path] = id
    /\ \A j \in 0..(Len(graph.edges) - 1) :
          edge(graph, j).from \in ids /\ edge(graph, j).to \in ids
    /\ \A id \in ids :
          LET adj == outgoing_edges(graph, id) IN
          /\ Range(adj) = {j \in 0..(Len(graph.edges) - 1) : edge(graph, j).from = id}
          /\ \A k \in 1..(Len(adj) - 1) : adj[k] < adj[k + 1]

\* A graph loaded from the cache file, with three modules or more and a
\* module that two edges leave
C38_Witness ==
    /\ run.how = "cached"
    /\ Len(graph.modules) >= 3
    /\ \E id \in 0..(Len(graph.modules) - 1) : Len(outgoing_edges(graph, id)) = 2
    /\ \E id \in 1..(Len(graph.modules) - 1) : Len(outgoing_edges(graph, id)) = 1

\* Workers of concurrent_discover that hold a popped path whose fetch_sub has
\* not happened yet
InProgress ==
    {w \in Workers : call.worker[w].pc \in {"parse", "imports", "fetch_add", "push", "fetch_sub"}}

\* C39: in every state of concurrent_discover the active counter is at least
\* the number of queued paths plus the number of paths being processed, so
\* it is zero only when the queue is empty and no file is in progress, and a
\* worker has returned only in such a state.
C39_NoExitWhileWorkRemains ==
    Discovering =>
        /\ call.active >= Len(call.queue) + Cardinality(InProgress)
        /\ call.active = 0 => call.queue = <<>> /\ InProgress = {}
        /\ \A w \in Workers :
              call.worker[w].pc = "exited" =>
                  call.active = 0 /\ call.queue = <<>> /\ InProgress = {}

\* One worker has returned after three files were parsed while the other has
\* not yet seen that the counter is zero
C39_Witness ==
    /\ Discovering
    /\ Len(call.results) = 3
    /\ \E w, v \in Workers :
          call.worker[w].pc = "exited" /\ call.worker[v].pc \in {"loop", "load"}

\* The paths of the FileResults in the returned vector
ResultPaths == {call.results[i].path : i \in 1..Len(call.results)}

\* C40: concurrent_discover enqueues and parses each path at most once, and
\* when all workers have exited the results hold exactly one FileResult for
\* every parseable file reachable from the entry through successfully parsed
\* files, the entry included, and none for a file whose parse failed.
C40_EachPathOnce ==
    /\ call.op \in {"concurrent_discover", "discovered"} =>
          \A p \in Paths : call.enqueued[p] <= 1 /\ call.parsed[p] <= 1
    /\ call.op = "discovered" =>
          /\ ResultPaths = Discoverable(fs, "a.ts")
          /\ Len(call.results) = Cardinality(ResultPaths)
          /\ \A p \in ResultPaths : lang_parse(fs, p).some
          /\ \A p \in Paths : call.parsed[p] = 1 /\ ~lang_parse(fs, p).some => p \notin ResultPaths

\* Two workers have resolved an import to c.ts at the same time: one is
\* between seen.insert and queue.push, the other has already recorded the
\* resolved import without enqueuing it
C40_Witness ==
    /\ Discovering
    /\ \E w, v \in Workers :
          /\ w # v
          /\ call.worker[w].pc \in {"fetch_add", "push"}
          /\ call.worker[w].found = "c.ts"
          /\ call.worker[v].pc = "imports"
          /\ \E i \in 1..Len(call.worker[v].imports) :
                call.worker[v].imports[i].path = Some("c.ts")
    /\ call.enqueued["c.ts"] = 0
====
